---------------------------- MODULE Spec2Model ----------------------------
(***************************************************************************)
(* A model of the MKF knowledge-compression core of marginalia:            *)
(* serializer.ts, parser.ts, merger.ts, compress.ts, file.ts, tokens.ts.   *)
(*                                                                         *)
(* Representation.                                                         *)
(*  - A JavaScript string is a sequence of one-character strings; the      *)
(*    arrow U+2192 of relationship lines is written ">" (one character,    *)
(*    as in UTF-16), and ">" stands for nothing else.                      *)
(*  - An optional string (reader?, needsReread?, sha256?) is <<>> when     *)
(*    undefined and <<s>> when set to the string s.                        *)
(*  - A number is <<>> for NaN and <<[m |-> m, e |-> e]>> for the decimal  *)
(*    m / 10^e, kept normalised (m a multiple of 10 only when e = 0).      *)
(*    Every number the model feeds to arithmetic is a dyadic rational, for *)
(*    which IEEE-754 doubles are exact.                                    *)
(*  - A Record<string,string> is the sequence of its [k, v] entries in     *)
(*    the order Object.entries enumerates them: canonical array-index keys *)
(*    in ascending numeric order first, then the other keys in insertion   *)
(*    order.                                                               *)
(***************************************************************************)
EXTENDS Integers, Sequences, FiniteSets, TLC

VARIABLES
    doc,      \* the running MkfDocument (the result of the last operation)
    prev,     \* the document the last operation was applied to
    chapter,  \* the incoming document of the last merge
    target,   \* targetTokens of the last finalizeCompression
    text,     \* the last text produced (serializeMkf / serializeMkfFile / forged)
    reader,   \* the reader argument of serializeMkfFile
    forged,   \* the version and the kind of digest line of a hand-made envelope
    verdict,  \* the result of the last validateMkfFile
    fields,   \* the document the last merge or compression had before it enforced the budget
    op,       \* the last operation
    steps,    \* number of operations applied so far
    textA,    \* the first argument of the last wordOverlap
    textB,    \* the second argument of the last wordOverlap
    overlap,  \* the result of the last wordOverlap, as a fraction
    emitted,  \* the text serializeMkf wrote for a document that was parsed and merged
    session,  \* the ReadingState the last createSession or advancePosition returned
    call      \* the last advancePosition call: its options, and its argument before and after

vars == <<doc, prev, chapter, fields, target, text, reader, forged, verdict, op, steps,
          textA, textB, overlap, emitted, session, call>>

-----------------------------------------------------------------------------
(* String literals of the sources *)

L_book == <<"b", "o", "o", "k", ":", " ">>
L_by == <<"b", "y", ":", " ">>
L_id == <<"i", "d", ":", " ">>
L_tokens == <<"t", "o", "k", "e", "n", "s", ":", " ">>
L_words == <<" ", "|", " ", "w", "o", "r", "d", "s", ":", " ">>
L_chapters == <<" ", "|", " ", "c", "h", "a", "p", "t", "e", "r", "s", ":", " ">>
L_read == <<"r", "e", "a", "d", ":", " ">>
L_reader == <<"r", "e", "a", "d", "e", "r", ":", " ">>
L_theme == <<"@", "t", "h", "e", "m", "e", " ">>
L_rel == <<"@", "r", "e", "l">>
L_struct == <<"@", "s", "t", "r", "u", "c", "t">>
L_concept == <<"@", "c", "o", "n", "c", "e", "p", "t", " ">>
L_facts == <<"@", "f", "a", "c", "t", "s">>
L_insights == <<"@", "i", "n", "s", "i", "g", "h", "t", "s">>
L_questions == <<"@", "q", "u", "e", "s", "t", "i", "o", "n", "s">>
L_connections == <<"@", "c", "o", "n", "n", "e", "c", "t", "i", "o", "n", "s">>
L_fw == <<"@", "f", "w", " ">>
L_meta == <<"@", "m", "e", "t", "a">>
L_session == <<" ", " ", "s", "e", "s", "s", "i", "o", "n", ":", " ">>
L_chapters_read == <<" ", " ", "c", "h", "a", "p", "t", "e", "r", "s", "_", "r", "e", "a", "d", ":", " ">>
L_confidence == <<" ", " ", "c", "o", "n", "f", "i", "d", "e", "n", "c", "e", ":", " ">>
L_compression_ratio == <<" ", " ", "c", "o", "m", "p", "r", "e", "s", "s", "i", "o", "n", "_", "r", "a", "t", "i", "o", ":", " ">>
L_needs_reread == <<" ", " ", "n", "e", "e", "d", "s", "_", "r", "e", "r", "e", "a", "d", ":", " ">>
L_distilled_from == <<" ", " ", "d", "i", "s", "t", "i", "l", "l", "e", "d", "_", "f", "r", "o", "m", ":", " ">>
L_format == <<" ", " ", "f", "o", "r", "m", "a", "t", ":", " ">>
L_sectionSep == <<"\n", "-", "-", "-", "\n">>
L_dashes == <<"-", "-", "-", "\n">>
L_blank == <<"\n", "\n">>
L_indent == <<" ", " ">>
L_colonSp == <<":", " ">>
L_bang == <<"!", " ">>
L_quest == <<" ", " ", "?", " ">>
L_tilde == <<" ", " ", "~", " ">>
L_NaN == <<"N", "a", "N">>
K_book == <<"b", "o", "o", "k">>
K_by == <<"b", "y">>
K_id == <<"i", "d">>
K_tokens == <<"t", "o", "k", "e", "n", "s">>
K_words == <<"w", "o", "r", "d", "s">>
K_chapters == <<"c", "h", "a", "p", "t", "e", "r", "s">>
K_read == <<"r", "e", "a", "d">>
K_reader == <<"r", "e", "a", "d", "e", "r">>
K_session == <<"s", "e", "s", "s", "i", "o", "n">>
K_chapters_read == <<"c", "h", "a", "p", "t", "e", "r", "s", "_", "r", "e", "a", "d">>
K_confidence == <<"c", "o", "n", "f", "i", "d", "e", "n", "c", "e">>
K_compression_ratio == <<"c", "o", "m", "p", "r", "e", "s", "s", "i", "o", "n", "_", "r", "a", "t", "i", "o">>
K_needs_reread == <<"n", "e", "e", "d", "s", "_", "r", "e", "r", "e", "a", "d">>
K_distilled_from == <<"d", "i", "s", "t", "i", "l", "l", "e", "d", "_", "f", "r", "o", "m">>
K_format == <<"f", "o", "r", "m", "a", "t">>
T_theme == <<"t", "h", "e", "m", "e">>
T_rel == <<"r", "e", "l">>
T_struct == <<"s", "t", "r", "u", "c", "t">>
T_concept == <<"c", "o", "n", "c", "e", "p", "t">>
T_facts == <<"f", "a", "c", "t", "s">>
T_fact == <<"f", "a", "c", "t">>
T_insights == <<"i", "n", "s", "i", "g", "h", "t", "s">>
T_questions == <<"q", "u", "e", "s", "t", "i", "o", "n", "s">>
T_connections == <<"c", "o", "n", "n", "e", "c", "t", "i", "o", "n", "s">>
T_fw == <<"f", "w">>
T_meta == <<"m", "e", "t", "a">>
MKF_MAGIC == <<"%", "M", "K", "F", "-", "1", ".", "0">>
ENVELOPE_DELIMITER == <<"%", "-", "-", "-">>
L_mkfPrefix == <<"%", "M", "K", "F", "-">>
L_shaPrefix == <<"%", "s", "h", "a", "2", "5", "6", ":">>
L_one_dot == <<"1", ".">>
L_fmt01 == <<"M", "K", "F", " ", "v", "0", ".", "1">>
ARROW == ">"
NL == "\n"

-----------------------------------------------------------------------------
(* JavaScript string primitives *)

Min(S) == CHOOSE x \in S : \A y \in S : x <= y
Max(S) == CHOOSE x \in S : \A y \in S : x >= y

UpperChars == <<"A","B","C","D","E","F","G","H","I","J","K","L","M","N","O","P","Q","R","S","T","U","V","W","X","Y","Z">>
LowerChars == <<"a","b","c","d","e","f","g","h","i","j","k","l","m","n","o","p","q","r","s","t","u","v","w","x","y","z">>
DigitChars == <<"0","1","2","3","4","5","6","7","8","9">>

UpperSet == {UpperChars[i] : i \in 1..26}
LowerSet == {LowerChars[i] : i \in 1..26}
DigitSet == {DigitChars[i] : i \in 1..10}
IsUpper(c) == c \in UpperSet
IsLower(c) == c \in LowerSet
IsDigit(c) == c \in DigitSet
DigitVal(c) == (CHOOSE i \in 1..10 : DigitChars[i] = c) - 1
\* \s of a regular expression and the characters String.prototype.trim removes
IsWs(c) == c \in {" ", "\t", "\n", "\r"}
\* \w of a regular expression
IsWordCh(c) == IsUpper(c) \/ IsLower(c) \/ IsDigit(c) \/ c = "_"

LowerCh(c) == IF IsUpper(c) THEN LowerChars[CHOOSE i \in 1..26 : UpperChars[i] = c] ELSE c
toLowerCase(s) == [i \in 1..Len(s) |-> LowerCh(s[i])]

\* s.slice(from) and s.slice(from, to) with 0-based, in-range arguments
sliceFrom(s, from) == SubSeq(s, from + 1, Len(s))
slice(s, from, to) == SubSeq(s, from + 1, to)

\* s.indexOf(c): 0-based index of the first c, -1 when there is none
indexOf(s, c) ==
    IF \E i \in 1..Len(s) : s[i] = c
    THEN Min({i \in 1..Len(s) : s[i] = c}) - 1
    ELSE -1

startsWith(s, p) == Len(s) >= Len(p) /\ SubSeq(s, 1, Len(p)) = p

trim(s) ==
    LET I == {i \in 1..Len(s) : ~IsWs(s[i])}
    IN  IF I = {} THEN <<>> ELSE SubSeq(s, Min(I), Max(I))

\* s.replace(/^c\s*/, "") for a string that starts with the character c
stripPrefixWs(s) ==
    LET I == {i \in 2..Len(s) : ~IsWs(s[i])}
    IN  IF I = {} THEN <<>> ELSE SubSeq(s, Min(I), Len(s))

\* s.split(c) for a single-character separator c
RECURSIVE splitFrom(_, _, _)
splitFrom(s, c, from) ==
    LET I == {i \in from..Len(s) : s[i] = c}
    IN  IF I = {} THEN <<SubSeq(s, from, Len(s))>>
        ELSE <<SubSeq(s, from, Min(I) - 1)>> \o splitFrom(s, c, Min(I) + 1)
split(s, c) == splitFrom(s, c, 1)

\* parts.join(sep)
RECURSIVE join(_, _)
join(parts, sep) ==
    IF parts = <<>> THEN <<>>
    ELSE IF Len(parts) = 1 THEN parts[1]
    ELSE parts[1] \o sep \o join(Tail(parts), sep)

\* [...a.map(f)] flattened: the concatenation of a sequence of sequences
RECURSIVE flatten(_)
flatten(ss) == IF ss = <<>> THEN <<>> ELSE ss[1] \o flatten(Tail(ss))

-----------------------------------------------------------------------------
(* Numbers *)

NaN == <<>>
RECURSIVE normDec(_, _)
normDec(m, e) == IF e > 0 /\ m % 10 = 0 THEN normDec(m \div 10, e - 1) ELSE [m |-> m, e |-> e]
Num(m, e) == <<normDec(m, e)>>
IsNaN(x) == x = <<>>
\* !x for a number x
NumFalsy(x) == IsNaN(x) \/ x[1].m = 0
RECURSIVE pow10(_)
pow10(e) == IF e = 0 THEN 1 ELSE 10 * pow10(e - 1)

RECURSIVE natDigits(_)
natDigits(n) == IF n < 10 THEN <<DigitChars[n + 1]>> ELSE natDigits(n \div 10) \o <<DigitChars[(n % 10) + 1]>>
RECURSIVE padDigits(_, _)
padDigits(ds, w) == IF Len(ds) >= w THEN ds ELSE padDigits(<<"0">> \o ds, w)

\* `${x}` for a number x (Number::toString, decimal notation)
numToString(x) ==
    IF IsNaN(x) THEN L_NaN
    ELSE LET m  == x[1].m
             e  == x[1].e
             a  == IF m < 0 THEN -m ELSE m
             ds == padDigits(natDigits(a), e + 1)
             ip == SubSeq(ds, 1, Len(ds) - e)
             fp == SubSeq(ds, Len(ds) - e + 1, Len(ds))
         IN  (IF m < 0 THEN <<"-">> ELSE <<>>) \o ip \o (IF e = 0 THEN <<>> ELSE <<".">> \o fp)

RECURSIVE digitsVal(_)
digitsVal(ds) == IF ds = <<>> THEN 0 ELSE 10 * digitsVal(SubSeq(ds, 1, Len(ds) - 1)) + DigitVal(ds[Len(ds)])
\* the longest prefix of s made of digits
digitPrefix(s) ==
    LET I == {i \in 1..Len(s) : ~IsDigit(s[i])}
    IN  IF I = {} THEN s ELSE SubSeq(s, 1, Min(I) - 1)

\* parseInt(s, 10)
parseInt(s) ==
    LET t   == sliceFrom(s, IF {i \in 1..Len(s) : ~IsWs(s[i])} = {} THEN Len(s)
                            ELSE Min({i \in 1..Len(s) : ~IsWs(s[i])}) - 1)
        neg == t # <<>> /\ t[1] = "-"
        u   == IF t # <<>> /\ t[1] \in {"-", "+"} THEN Tail(t) ELSE t
        ds  == digitPrefix(u)
    IN  IF ds = <<>> THEN NaN
        ELSE Num(IF neg THEN -digitsVal(ds) ELSE digitsVal(ds), 0)

\* parseFloat(s): sign, digits, optional fraction (no exponent part is modelled)
parseFloat(s) ==
    LET t   == sliceFrom(s, IF {i \in 1..Len(s) : ~IsWs(s[i])} = {} THEN Len(s)
                            ELSE Min({i \in 1..Len(s) : ~IsWs(s[i])}) - 1)
        neg == t # <<>> /\ t[1] = "-"
        u   == IF t # <<>> /\ t[1] \in {"-", "+"} THEN Tail(t) ELSE t
        ip  == digitPrefix(u)
        r   == sliceFrom(u, Len(ip))
        fp  == IF r # <<>> /\ r[1] = "." THEN digitPrefix(Tail(r)) ELSE <<>>
        v   == digitsVal(ip) * pow10(Len(fp)) + digitsVal(fp)
    IN  IF ip = <<>> /\ fp = <<>> THEN NaN
        ELSE Num(IF neg THEN -v ELSE v, Len(fp))

\* (a + b) / 2 for two numbers that are not NaN
numAverage(a, b) ==
    LET e == IF a[1].e > b[1].e THEN a[1].e ELSE b[1].e
        s == a[1].m * pow10(e - a[1].e) + b[1].m * pow10(e - b[1].e)
    IN  Num(s * 5, e + 1)
\* Math.min(1, x)
numMin1(x) == IF IsNaN(x) THEN NaN ELSE IF x[1].m > pow10(x[1].e) THEN Num(1, 0) ELSE x

-----------------------------------------------------------------------------
(* Record<string,string> in Object.entries order *)

\* a canonical array index ("0", "7", "12"; not "", "01", "a1"): such keys are
\* enumerated first, in ascending numeric order (keys here stay far below 2^32 - 1)
IsIndexKey(k) ==
    /\ k # <<>>
    /\ \A i \in 1..Len(k) : IsDigit(k[i])
    /\ (Len(k) > 1 => k[1] # "0")
IndexKeyLess(a, b) == Len(a) < Len(b) \/ (Len(a) = Len(b) /\ digitsVal(a) < digitsVal(b))

N_constructor == <<"c", "o", "n", "s", "t", "r", "u", "c", "t", "o", "r">>
N_hasOwnProperty == <<"h", "a", "s", "O", "w", "n", "P", "r", "o", "p", "e", "r", "t", "y">>
N_isPrototypeOf == <<"i", "s", "P", "r", "o", "t", "o", "t", "y", "p", "e", "O", "f">>
N_propertyIsEnumerable == <<"p", "r", "o", "p", "e", "r", "t", "y", "I", "s", "E", "n", "u", "m", "e", "r", "a", "b", "l", "e">>
N_toLocaleString == <<"t", "o", "L", "o", "c", "a", "l", "e", "S", "t", "r", "i", "n", "g">>
N_toString == <<"t", "o", "S", "t", "r", "i", "n", "g">>
N_valueOf == <<"v", "a", "l", "u", "e", "O", "f">>
N_defineGetter == <<"_", "_", "d", "e", "f", "i", "n", "e", "G", "e", "t", "t", "e", "r", "_", "_">>
N_defineSetter == <<"_", "_", "d", "e", "f", "i", "n", "e", "S", "e", "t", "t", "e", "r", "_", "_">>
N_lookupGetter == <<"_", "_", "l", "o", "o", "k", "u", "p", "G", "e", "t", "t", "e", "r", "_", "_">>
N_lookupSetter == <<"_", "_", "l", "o", "o", "k", "u", "p", "S", "e", "t", "t", "e", "r", "_", "_">>
N_proto == <<"_", "_", "p", "r", "o", "t", "o", "_", "_">>
\* the function members every plain object inherits from Object.prototype, each with
\* its .length (the number of its parameters)
ObjectPrototype ==
    { [k |-> N_constructor, length |-> 1],
      [k |-> N_hasOwnProperty, length |-> 1],
      [k |-> N_isPrototypeOf, length |-> 1],
      [k |-> N_propertyIsEnumerable, length |-> 1],
      [k |-> N_toLocaleString, length |-> 0],
      [k |-> N_toString, length |-> 0],
      [k |-> N_valueOf, length |-> 0],
      [k |-> N_defineGetter, length |-> 2],
      [k |-> N_defineSetter, length |-> 2],
      [k |-> N_lookupGetter, length |-> 1],
      [k |-> N_lookupSetter, length |-> 1] }
IsInherited(key) == \E p \in ObjectPrototype : p.k = key
inheritedLength(key) == (CHOOSE p \in ObjectPrototype : p.k = key).length

recordHas(r, key) == \E i \in 1..Len(r) : r[i].k = key
\* r[key]: <<>> for undefined, <<v>> for the string v
recordGet(r, key) ==
    IF recordHas(r, key) THEN <<r[CHOOSE i \in 1..Len(r) : r[i].k = key].v>> ELSE <<>>
\* r[key] = value; without an own property "__proto__" the assignment reaches the
\* accessor of Object.prototype, which ignores a string
recordSet(r, key, value) ==
    IF recordHas(r, key)
    THEN [i \in 1..Len(r) |-> IF r[i].k = key THEN [k |-> key, v |-> value] ELSE r[i]]
    ELSE IF key = N_proto THEN r
    ELSE IF IsIndexKey(key)
    THEN LET p == Cardinality({i \in 1..Len(r) : IsIndexKey(r[i].k) /\ IndexKeyLess(r[i].k, key)})
         IN  SubSeq(r, 1, p) \o <<[k |-> key, v |-> value]>> \o SubSeq(r, p + 1, Len(r))
    ELSE Append(r, [k |-> key, v |-> value])
\* the record built by assigning the entries of kvs in order to {}
RECURSIVE recordFrom(_)
recordFrom(kvs) ==
    IF kvs = <<>> THEN <<>>
    ELSE LET e == kvs[Len(kvs)]
         IN  recordSet(recordFrom(SubSeq(kvs, 1, Len(kvs) - 1)), e.k, e.v)
\* a string s is truthy when it is not empty; an optional string when it is set and not empty
Truthy(o) == o # <<>> /\ o[1] # <<>>
\* a || b for two optional strings
OrElse(a, b) == IF Truthy(a) THEN a ELSE b

-----------------------------------------------------------------------------
(* serializer.ts *)

serializeHeader(h) ==
    join(<< L_book \o h.book,
            L_by \o h.by,
            L_id \o h.id,
            L_tokens \o h.tokens \o L_words \o h.words \o L_chapters \o numToString(h.chapters),
            L_read \o h.read >>
         \o (IF Truthy(h.reader) THEN <<L_reader \o h.reader[1]>> ELSE <<>>),
         <<NL>>)

serializeProperties(props) ==
    [i \in 1..Len(props) |-> L_indent \o props[i].k \o L_colonSp \o props[i].v]

serializeTheme(theme) ==
    join(<<L_theme \o theme.name>> \o serializeProperties(theme.properties), <<NL>>)

serializeRelationships(rels) ==
    join(<<L_rel>> \o
         [i \in 1..Len(rels) |->
            L_indent \o rels[i].from \o <<" ", ARROW>> \o rels[i].arrow \o <<ARROW, " ">>
                     \o rels[i].to
                     \o (IF rels[i].annotation # <<>> THEN L_colonSp \o rels[i].annotation ELSE <<>>)],
         <<NL>>)

serializeStructure(struct) ==
    join(<<L_struct>> \o serializeProperties(struct.properties), <<NL>>)

serializeConcept(concept) ==
    join(<<L_concept \o concept.name>> \o serializeProperties(concept.properties), <<NL>>)

serializeFacts(facts) ==
    join(<<L_facts>> \o serializeProperties(facts.entries), <<NL>>)

serializeTier1(t) ==
    join([i \in 1..Len(t.themes) |-> serializeTheme(t.themes[i])]
         \o (IF Len(t.relationships) > 0 THEN <<serializeRelationships(t.relationships)>> ELSE <<>>)
         \o (IF Len(t.structure.properties) > 0 THEN <<serializeStructure(t.structure)>> ELSE <<>>)
         \o [i \in 1..Len(t.concepts) |-> serializeConcept(t.concepts[i])]
         \o (IF Len(t.facts.entries) > 0 THEN <<serializeFacts(t.facts)>> ELSE <<>>),
         L_blank)

serializeInsights(insights) ==
    join(<<L_insights>> \o
         [i \in 1..Len(insights) |->
            L_indent \o (IF insights[i].significant THEN L_bang ELSE <<>>) \o insights[i].text],
         <<NL>>)

serializeQuestions(questions) ==
    join(<<L_questions>> \o [i \in 1..Len(questions) |-> L_quest \o questions[i].text], <<NL>>)

serializeConnections(connections) ==
    join(<<L_connections>> \o
         [i \in 1..Len(connections) |->
            L_tilde \o connections[i].target
                    \o (IF connections[i].text # <<>> THEN L_colonSp \o connections[i].text ELSE <<>>)],
         <<NL>>)

serializeFramework(fw) ==
    join(<<L_fw \o fw.name>> \o serializeProperties(fw.properties), <<NL>>)

serializeTier2(t) ==
    join((IF Len(t.insights) > 0 THEN <<serializeInsights(t.insights)>> ELSE <<>>)
         \o (IF Len(t.questions) > 0 THEN <<serializeQuestions(t.questions)>> ELSE <<>>)
         \o (IF Len(t.connections) > 0 THEN <<serializeConnections(t.connections)>> ELSE <<>>)
         \o [i \in 1..Len(t.frameworks) |-> serializeFramework(t.frameworks[i])],
         L_blank)

serializeMeta(m) ==
    join(<< L_meta,
            L_session \o m.session,
            L_chapters_read \o m.chaptersRead,
            L_confidence \o numToString(m.confidence),
            L_compression_ratio \o m.compressionRatio >>
         \o (IF Truthy(m.needsReread) THEN <<L_needs_reread \o m.needsReread[1]>> ELSE <<>>)
         \o (IF Truthy(m.distilledFrom) THEN <<L_distilled_from \o m.distilledFrom[1]>> ELSE <<>>)
         \o <<L_format \o m.format>>,
         <<NL>>)

serializeMkf(d) ==
    join(<<serializeHeader(d.header), serializeTier1(d.tier1),
           serializeTier2(d.tier2), serializeMeta(d.meta)>>, L_sectionSep)

\* tokens.ts: Math.ceil(text.length / 4)
estimateTokens(t) == (Len(t) + 3) \div 4

-----------------------------------------------------------------------------
(* parser.ts *)

\* the j-th smallest element of a finite set of integers
nth(S, j) == CHOOSE x \in S : Cardinality({y \in S : y < x}) = j - 1
\* o ?? "" for an optional string o
orEmpty(o) == IF o = <<>> THEN <<>> ELSE o[1]

\* text.split(/\n---\n|^---\n/m) from position `from` on: the leftmost match of
\* "\n---\n", or of "---\n" at the start of a line, ends a piece
RECURSIVE splitSectionsFrom(_, _)
splitSectionsFrom(t, from) ==
    LET M1(i) == i + 4 <= Len(t) /\ SubSeq(t, i, i + 4) = L_sectionSep
        M2(i) == i + 3 <= Len(t) /\ (i = 1 \/ t[i - 1] = NL) /\ SubSeq(t, i, i + 3) = L_dashes
        I     == {i \in from..Len(t) : M1(i) \/ M2(i)}
    IN  IF I = {} THEN <<SubSeq(t, from, Len(t))>>
        ELSE <<SubSeq(t, from, Min(I) - 1)>>
             \o splitSectionsFrom(t, Min(I) + (IF M1(Min(I)) THEN 5 ELSE 4))

splitSections(t) ==
    LET raw == splitSectionsFrom(t, 1)
    IN  [i \in 1..Len(raw) |-> trim(raw[i])]

nonEmptyLines(t) == SelectSeq(split(t, NL), LAMBDA l : Len(trim(l)) > 0)

\* the [key, value] assignments parseKeyValueLines makes, in order
keyValuePairs(lines) ==
    LET ok == SelectSeq(lines, LAMBDA l : indexOf(l, ":") > 0)
    IN  [i \in 1..Len(ok) |->
            [k |-> trim(slice(ok[i], 0, indexOf(ok[i], ":"))),
             v |-> trim(sliceFrom(ok[i], indexOf(ok[i], ":") + 1))]]
parseKeyValueLines(lines) == recordFrom(keyValuePairs(lines))

\* parseIndentedKV trims each line before it looks for the colon
parseIndentedKV(lines) ==
    recordFrom(keyValuePairs([i \in 1..Len(lines) |-> trim(lines[i])]))

\* the loop of parseHeader over parts.slice(1): acc = [words, chapters]
RECURSIVE statsLoop(_, _)
statsLoop(parts, acc) ==
    IF parts = <<>> THEN acc
    ELSE LET kv  == split(parts[1], ":")
             kk  == trim(kv[1])
             vv  == IF Len(kv) >= 2 THEN <<trim(kv[2])>> ELSE <<>>
             a1  == IF kk = K_words THEN [acc EXCEPT !.words = orEmpty(vv)] ELSE acc
             a2  == IF kk = K_chapters
                    THEN [a1 EXCEPT !.chapters = parseInt(IF vv = <<>> THEN <<"0">> ELSE vv[1])]
                    ELSE a1
         IN  statsLoop(Tail(parts), a2)

parseHeader(t) ==
    LET kv      == parseKeyValueLines(nonEmptyLines(t))
        tokens0 == orEmpty(recordGet(kv, K_tokens))
        words0  == orEmpty(recordGet(kv, K_words))
        packed  == indexOf(tokens0, "|") >= 0
        raw     == split(tokens0, "|")
        parts   == [i \in 1..Len(raw) |-> trim(raw[i])]
        st      == IF packed
                   THEN statsLoop(Tail(parts), [words |-> words0, chapters |-> Num(0, 0)])
                   ELSE [words |-> words0, chapters |-> Num(0, 0)]
        chapters == IF NumFalsy(st.chapters) /\ Truthy(recordGet(kv, K_chapters))
                    THEN parseInt(recordGet(kv, K_chapters)[1])
                    ELSE st.chapters
    IN  [book     |-> orEmpty(recordGet(kv, K_book)),
         by       |-> orEmpty(recordGet(kv, K_by)),
         id       |-> orEmpty(recordGet(kv, K_id)),
         tokens   |-> IF packed THEN parts[1] ELSE tokens0,
         words    |-> st.words,
         chapters |-> chapters,
         read     |-> orEmpty(recordGet(kv, K_read)),
         reader   |-> recordGet(kv, K_reader)]

\* line.match(/^@(\w+)\s*(.*)?$/) succeeds
IsBlockLine(l) == Len(l) >= 2 /\ l[1] = "@" /\ IsWordCh(l[2])
\* group 1: the longest run of word characters after "@"
blockType(l) ==
    LET I == {i \in 2..Len(l) : ~IsWordCh(l[i])}
    IN  IF I = {} THEN SubSeq(l, 2, Len(l)) ELSE SubSeq(l, 2, Min(I) - 1)
\* group 2, trimmed, or undefined when that is empty
blockName(l) ==
    LET n == trim(SubSeq(l, Len(blockType(l)) + 2, Len(l)))
    IN  IF n = <<>> THEN <<>> ELSE <<n>>

splitBlocks(t) ==
    LET lines  == split(t, NL)
        starts == {i \in 1..Len(lines) : IsBlockLine(lines[i])}
        n      == Cardinality(starts)
        first(j) == nth(starts, j)
        last(j)  == IF j = n THEN Len(lines) ELSE nth(starts, j + 1) - 1
    IN  [j \in 1..n |->
            [type |-> blockType(lines[first(j)]),
             name |-> blockName(lines[first(j)]),
             body |-> SelectSeq(SubSeq(lines, first(j) + 1, last(j)),
                                LAMBDA l : trim(l) # <<>>)]]

\* line.match(/^\s*(\S+)\s+>(\w+)>\s+(\S+?)(?::?\s+(.*))?$/), ">" the arrow:
\* <<>> when the line does not match, else <<the relationship>>
matchRelationship(l) ==
    LET n      == Len(l)
        runEnd(i, P(_)) == \* last index of the longest run from i of characters satisfying P
            LET J == {j \in i..n : ~P(l[j])} IN IF J = {} THEN n ELSE Min(J) - 1
        NonWs(c) == ~IsWs(c)
        a1 == runEnd(1, IsWs) + 1            \* start of group 1
        a2 == runEnd(a1, NonWs)              \* end of group 1
        b1 == runEnd(a2 + 1, IsWs) + 1       \* the first arrow
        c2 == runEnd(b1 + 1, IsWordCh)       \* end of group 2
        d1 == runEnd(c2 + 2, IsWs) + 1       \* start of group 3
        d2 == runEnd(d1, NonWs)              \* end of the run group 3 is taken from
        ok == /\ a1 <= n /\ a2 >= a1
              /\ b1 > a2 + 1 /\ b1 <= n /\ l[b1] = ARROW
              /\ c2 >= b1 + 1 /\ c2 + 1 <= n /\ l[c2 + 1] = ARROW
              /\ d1 > c2 + 2 /\ d1 <= n /\ d2 >= d1
        \* the lazy group 3 stops before a colon that ends the run and is followed by space
        cut == d2 > d1 /\ l[d2] = ":" /\ d2 < n
        e2  == IF cut THEN d2 - 1 ELSE d2
    IN  IF ~ok THEN <<>>
        ELSE <<[from       |-> SubSeq(l, a1, a2),
                arrow      |-> SubSeq(l, b1 + 1, c2),
                to         |-> SubSeq(l, d1, e2),
                annotation |-> trim(SubSeq(l, d2 + 1, n))]>>

parseRelationships(lines) == flatten([i \in 1..Len(lines) |-> matchRelationship(lines[i])])

\* the loop of parseInsights: st = [results, currentText, currentSignificant]
RECURSIVE insightsLoop(_, _)
insightsLoop(lines, st) ==
    IF lines = <<>> THEN st
    ELSE LET trimmed        == trim(lines[1])
             isNewInsight   == startsWith(trimmed, <<"!">>)
             isPlainInsight == /\ ~startsWith(trimmed, <<" ">>) /\ ~startsWith(trimmed, <<"\t">>)
                               /\ ~isNewInsight /\ Len(trimmed) > 0
             isContinuation == /\ (startsWith(trimmed, <<" ">>) \/ startsWith(trimmed, <<"\t">>))
                               /\ ~isNewInsight /\ ~isPlainInsight
             flushed        == IF st.currentText # <<>>
                               THEN Append(st.results, [significant |-> st.currentSignificant,
                                                        text |-> st.currentText])
                               ELSE st.results
             nxt == IF isNewInsight
                    THEN [results |-> flushed, currentText |-> stripPrefixWs(trimmed),
                          currentSignificant |-> TRUE]
                    ELSE IF isPlainInsight
                    THEN [results |-> flushed, currentText |-> trimmed,
                          currentSignificant |-> FALSE]
                    ELSE IF isContinuation /\ st.currentText # <<>>
                    THEN [st EXCEPT !.currentText = st.currentText \o <<" ">> \o trimmed]
                    ELSE st
         IN  insightsLoop(Tail(lines), nxt)

parseInsights(lines) ==
    LET st == insightsLoop(lines, [results |-> <<>>, currentText |-> <<>>,
                                   currentSignificant |-> FALSE])
    IN  IF st.currentText # <<>>
        THEN Append(st.results, [significant |-> st.currentSignificant, text |-> st.currentText])
        ELSE st.results

parseQuestions(lines) ==
    LET ts == SelectSeq([i \in 1..Len(lines) |-> trim(lines[i])],
                        LAMBDA l : startsWith(l, <<"?">>))
    IN  [i \in 1..Len(ts) |-> [text |-> stripPrefixWs(ts[i])]]

parseConnections(lines) ==
    LET ts == SelectSeq([i \in 1..Len(lines) |-> trim(lines[i])],
                        LAMBDA l : startsWith(l, <<"~">>))
        one(l) == LET content  == stripPrefixWs(l)
                      colonIdx == indexOf(content, ":")
                  IN  IF colonIdx > 0
                      THEN [target |-> trim(slice(content, 0, colonIdx)),
                            text   |-> trim(sliceFrom(content, colonIdx + 1))]
                      ELSE [target |-> content, text |-> <<>>]
    IN  [i \in 1..Len(ts) |-> one(ts[i])]

\* the blocks of one of the given types, in order
blocksOf(blocks, types) == SelectSeq(blocks, LAMBDA b : b.type \in types)
\* the properties of the last block of the given types ({} when there is none)
lastKV(blocks, types) ==
    LET bs == blocksOf(blocks, types)
    IN  IF bs = <<>> THEN <<>> ELSE parseIndentedKV(bs[Len(bs)].body)
namedBlocks(blocks, type) ==
    LET bs == blocksOf(blocks, {type})
    IN  [i \in 1..Len(bs) |-> [name |-> orEmpty(bs[i].name),
                               properties |-> parseIndentedKV(bs[i].body)]]

parseTier1(t) ==
    LET blocks == splitBlocks(t)
        rels   == blocksOf(blocks, {T_rel})
    IN  [themes        |-> namedBlocks(blocks, T_theme),
         relationships |-> flatten([i \in 1..Len(rels) |-> parseRelationships(rels[i].body)]),
         structure     |-> [properties |-> lastKV(blocks, {T_struct})],
         concepts      |-> namedBlocks(blocks, T_concept),
         facts         |-> [entries |-> lastKV(blocks, {T_facts, T_fact})]]

parseTier2(t) ==
    LET blocks == splitBlocks(t)
        ins    == blocksOf(blocks, {T_insights})
        qs     == blocksOf(blocks, {T_questions})
        cs     == blocksOf(blocks, {T_connections})
    IN  [insights    |-> flatten([i \in 1..Len(ins) |-> parseInsights(ins[i].body)]),
         questions   |-> flatten([i \in 1..Len(qs) |-> parseQuestions(qs[i].body)]),
         connections |-> flatten([i \in 1..Len(cs) |-> parseConnections(cs[i].body)]),
         frameworks  |-> namedBlocks(blocks, T_fw)]

parseMeta(t) ==
    LET blocks == splitBlocks(t)
        kv     == IF Len(blocks) > 0 /\ blocks[1].type = T_meta
                  THEN parseIndentedKV(blocks[1].body)
                  ELSE parseIndentedKV(nonEmptyLines(t))
        conf   == recordGet(kv, K_confidence)
    IN  [session          |-> orEmpty(recordGet(kv, K_session)),
         chaptersRead     |-> orEmpty(recordGet(kv, K_chapters_read)),
         confidence       |-> parseFloat(IF conf = <<>> THEN <<"0">> ELSE conf[1]),
         compressionRatio |-> orEmpty(recordGet(kv, K_compression_ratio)),
         needsReread      |-> recordGet(kv, K_needs_reread),
         distilledFrom    |-> recordGet(kv, K_distilled_from),
         format           |-> orEmpty(recordGet(kv, K_format))]

parseMkf(t) ==
    LET sections == splitSections(t)
        sec(i)   == IF Len(sections) >= i THEN sections[i] ELSE <<>>
    IN  [header |-> parseHeader(sec(1)),
         tier1  |-> parseTier1(sec(2)),
         tier2  |-> parseTier2(sec(3)),
         meta   |-> parseMeta(sec(4))]

-----------------------------------------------------------------------------
(* merger.ts *)

MAX_MKF_TOKENS == 3200

emptyMkf ==
    [header |-> [book |-> <<>>, by |-> <<>>, id |-> <<>>, tokens |-> <<>>, words |-> <<>>,
                 chapters |-> Num(0, 0), read |-> <<>>, reader |-> <<>>],
     tier1  |-> [themes |-> <<>>, relationships |-> <<>>, structure |-> [properties |-> <<>>],
                 concepts |-> <<>>, facts |-> [entries |-> <<>>]],
     tier2  |-> [insights |-> <<>>, questions |-> <<>>, connections |-> <<>>, frameworks |-> <<>>],
     meta   |-> [session |-> <<>>, chaptersRead |-> <<>>, confidence |-> Num(0, 0),
                 compressionRatio |-> <<>>, needsReread |-> <<>>, distilledFrom |-> <<>>,
                 format |-> L_fmt01]]

\* a || b for two strings
strOr(a, b) == IF a # <<>> THEN a ELSE b

\* mergeHeaders letting the title of a later chapter replace the title
mergeHeaders_lastTitleWins(existing, incoming) ==
    [book     |-> strOr(incoming.book, existing.book),
     by       |-> strOr(existing.by, incoming.by),
     id       |-> strOr(existing.id, incoming.id),
     tokens   |-> strOr(existing.tokens, incoming.tokens),
     words    |-> strOr(existing.words, incoming.words),
     chapters |-> IF NumFalsy(existing.chapters) THEN incoming.chapters ELSE existing.chapters,
     read     |-> strOr(incoming.read, existing.read),
     reader   |-> OrElse(existing.reader, incoming.reader)]

mergeHeaders(existing, incoming) ==
    [book     |-> strOr(existing.book, incoming.book),
     by       |-> strOr(existing.by, incoming.by),
     id       |-> strOr(existing.id, incoming.id),
     tokens   |-> strOr(existing.tokens, incoming.tokens),
     words    |-> strOr(existing.words, incoming.words),
     chapters |-> IF NumFalsy(existing.chapters) THEN incoming.chapters ELSE existing.chapters,
     read     |-> strOr(incoming.read, existing.read),
     reader   |-> OrElse(existing.reader, incoming.reader)]

\* s.toLowerCase().replace(/[_\s-]+/g, "").trim()
normalize(s) == trim(SelectSeq(toLowerCase(s), LAMBDA c : ~(c = "_" \/ c = "-" \/ IsWs(c))))

\* arr.findIndex(pred) + 1: the first index satisfying P, 0 when there is none
findIndex(arr, P(_)) ==
    IF \E i \in 1..Len(arr) : P(arr[i]) THEN Min({i \in 1..Len(arr) : P(arr[i])}) ELSE 0

\* the body of mergeRecords's loop: result[key] is the own property, else the member
\* of Object.prototype of that name (a function, truthy, whose .length is compared;
\* for "__proto__" the prototype object, truthy, whose .length is undefined), else
\* undefined
mergeEntry(result, e) ==
    LET old == recordGet(result, e.k)
    IN  IF recordHas(result, e.k)
        THEN IF ~Truthy(old) \/ Len(e.v) > Len(old[1])
             THEN recordSet(result, e.k, e.v) ELSE result
        ELSE IF IsInherited(e.k)
        THEN IF Len(e.v) > inheritedLength(e.k) THEN recordSet(result, e.k, e.v) ELSE result
        ELSE IF e.k = N_proto THEN result
        ELSE recordSet(result, e.k, e.v)

RECURSIVE mergeRecords(_, _)
mergeRecords(existing, incoming) ==
    IF incoming = <<>> THEN existing
    ELSE mergeRecords(mergeEntry(existing, incoming[1]), Tail(incoming))

\* mergeNamed without the search for an entry of the same name
mergeNamed_alwaysAppend(merged, item) == Append(merged, item)

\* one iteration of the loop of mergeThemes / mergeConcepts / mergeFrameworks
mergeNamed(merged, item) ==
    LET match == findIndex(merged, LAMBDA t : normalize(t.name) = normalize(item.name))
    IN  IF match > 0
        THEN [merged EXCEPT ![match] =
                [name |-> merged[match].name,
                 properties |-> mergeRecords(merged[match].properties, item.properties)]]
        ELSE Append(merged, item)

RECURSIVE mergeThemes(_, _)
mergeThemes(existing, incoming) ==
    IF incoming = <<>> THEN existing
    ELSE mergeThemes(mergeNamed(existing, incoming[1]), Tail(incoming))

RECURSIVE mergeConcepts(_, _)
mergeConcepts(existing, incoming) ==
    IF incoming = <<>> THEN existing
    ELSE mergeConcepts(mergeNamed(existing, incoming[1]), Tail(incoming))

RECURSIVE mergeFrameworks(_, _)
mergeFrameworks(existing, incoming) ==
    IF incoming = <<>> THEN existing
    ELSE mergeFrameworks(mergeNamed(existing, incoming[1]), Tail(incoming))

mergeRelationship(merged, rel) ==
    LET match == findIndex(merged, LAMBDA r : /\ normalize(r.from) = normalize(rel.from)
                                              /\ normalize(r.arrow) = normalize(rel.arrow)
                                              /\ normalize(r.to) = normalize(rel.to))
    IN  IF match > 0
        THEN IF Len(rel.annotation) > Len(merged[match].annotation)
             THEN [merged EXCEPT ![match].annotation = rel.annotation]
             ELSE merged
        ELSE Append(merged, rel)

RECURSIVE mergeRelationships(_, _)
mergeRelationships(existing, incoming) ==
    IF incoming = <<>> THEN existing
    ELSE mergeRelationships(mergeRelationship(existing, incoming[1]), Tail(incoming))

mergeProperties(existing, incoming) ==
    [properties |-> mergeRecords(existing.properties, incoming.properties)]

stopWords ==
    { <<"t", "h", "e">>,
      <<"a">>,
      <<"a", "n">>,
      <<"i", "s">>,
      <<"a", "r", "e">>,
      <<"w", "a", "s">>,
      <<"w", "e", "r", "e">>,
      <<"b", "e">>,
      <<"b", "e", "e", "n">>,
      <<"b", "e", "i", "n", "g">>,
      <<"h", "a", "v", "e">>,
      <<"h", "a", "s">>,
      <<"h", "a", "d">>,
      <<"d", "o">>,
      <<"d", "o", "e", "s">>,
      <<"d", "i", "d">>,
      <<"w", "i", "l", "l">>,
      <<"w", "o", "u", "l", "d">>,
      <<"c", "o", "u", "l", "d">>,
      <<"s", "h", "o", "u", "l", "d">>,
      <<"m", "a", "y">>,
      <<"m", "i", "g", "h", "t">>,
      <<"c", "a", "n">>,
      <<"s", "h", "a", "l", "l">>,
      <<"t", "o">>,
      <<"o", "f">>,
      <<"i", "n">>,
      <<"f", "o", "r">>,
      <<"o", "n">>,
      <<"w", "i", "t", "h">>,
      <<"a", "t">>,
      <<"b", "y">>,
      <<"f", "r", "o", "m">>,
      <<"a", "s">>,
      <<"i", "n", "t", "o">>,
      <<"t", "h", "r", "o", "u", "g", "h">>,
      <<"d", "u", "r", "i", "n", "g">>,
      <<"b", "e", "f", "o", "r", "e">>,
      <<"a", "f", "t", "e", "r">>,
      <<"a", "b", "o", "v", "e">>,
      <<"b", "e", "l", "o", "w">>,
      <<"b", "e", "t", "w", "e", "e", "n">>,
      <<"a", "n", "d">>,
      <<"b", "u", "t">>,
      <<"o", "r">>,
      <<"n", "o", "r">>,
      <<"n", "o", "t">>,
      <<"n", "o">>,
      <<"s", "o">>,
      <<"i", "f">>,
      <<"t", "h", "e", "n">>,
      <<"t", "h", "a", "n">>,
      <<"t", "h", "a", "t">>,
      <<"t", "h", "i", "s">>,
      <<"i", "t">>,
      <<"i", "t", "s">> }

\* the maximal runs of characters of s that are not separators, in order
splitRuns(s, IsSep(_)) ==
    LET starts == {i \in 1..Len(s) : ~IsSep(s[i]) /\ (i = 1 \/ IsSep(s[i - 1]))}
        ends   == {i \in 1..Len(s) : ~IsSep(s[i]) /\ (i = Len(s) \/ IsSep(s[i + 1]))}
    IN  [j \in 1..Cardinality(starts) |-> SubSeq(s, nth(starts, j), nth(ends, j))]

\* text.toLowerCase().replace(/[^a-z0-9\s_]/g, "")
stripPunctuation(s) ==
    SelectSeq(toLowerCase(s), LAMBDA c : IsLower(c) \/ IsDigit(c) \/ IsWs(c) \/ c = "_")

\* extractWords without the stop-word filter
extractWords_keepStopWords(s) ==
    SelectSeq(splitRuns(stripPunctuation(s), IsWs), LAMBDA w : Len(w) > 2)

\* extractWords: .split(/\s+/).filter((w) => w.length > 2 && !stopWords.has(w));
\* the empty strings a leading or trailing separator yields are shorter than 3
extractWords(s) ==
    SelectSeq(splitRuns(stripPunctuation(s), IsWs), LAMBDA w : Len(w) > 2 /\ w \notin stopWords)

seqToSet(s) == {s[i] : i \in 1..Len(s)}

\* wordOverlap(a, b) as the fraction [num, den] (0 is [0, 1])
wordOverlap(a, b) ==
    LET wordsA == seqToSet(extractWords(a))
        wordsB == seqToSet(extractWords(b))
    IN  IF wordsA = {} \/ wordsB = {} THEN [num |-> 0, den |-> 1]
        ELSE [num |-> Cardinality(wordsA \cap wordsB), den |-> Cardinality(wordsA \cup wordsB)]

\* a similarity test that holds for equal texts only
similar_sameText(a, b) == a = b

\* wordOverlap(a, b) >= 0.6 and wordOverlap(a, b) >= 0.4
similar(a, b) == LET r == wordOverlap(a, b) IN 10 * r.num >= 6 * r.den
answers(a, b) == LET r == wordOverlap(a, b) IN 10 * r.num >= 4 * r.den

\* mergeInsight keeping the text of the insight already merged
mergeInsight_keepText(merged, insight) ==
    LET duplicate == findIndex(merged, LAMBDA i : similar(i.text, insight.text))
    IN  IF duplicate > 0
        THEN [merged EXCEPT ![duplicate].significant = @ \/ insight.significant]
        ELSE Append(merged, insight)

\* mergeInsight without the search for a duplicate
mergeInsight_alwaysAppend(merged, insight) == Append(merged, insight)

mergeInsight(merged, insight) ==
    LET duplicate == findIndex(merged, LAMBDA i : similar(i.text, insight.text))
        old       == merged[duplicate]
        promoted  == IF insight.significant /\ ~old.significant
                     THEN [old EXCEPT !.significant = TRUE] ELSE old
        longer    == IF Len(insight.text) > Len(promoted.text)
                     THEN [promoted EXCEPT !.text = insight.text] ELSE promoted
    IN  IF duplicate > 0 THEN [merged EXCEPT ![duplicate] = longer]
        ELSE Append(merged, insight)

RECURSIVE mergeInsights(_, _)
mergeInsights(existing, incoming) ==
    IF incoming = <<>> THEN existing
    ELSE mergeInsights(mergeInsight(existing, incoming[1]), Tail(incoming))

RECURSIVE addQuestions(_, _)
addQuestions(surviving, incoming) ==
    IF incoming = <<>> THEN surviving
    ELSE addQuestions(
            IF findIndex(surviving, LAMBDA s : similar(s.text, incoming[1].text)) = 0
            THEN Append(surviving, incoming[1]) ELSE surviving,
            Tail(incoming))

\* promoteQuestions asking of an answering insight the overlap of a duplicate
promoteQuestions_answeredAtSixTenths(existingQuestions, incomingQuestions, newInsights) ==
    addQuestions(
        SelectSeq(existingQuestions,
                  LAMBDA q : ~\E i \in 1..Len(newInsights) : similar(q.text, newInsights[i].text)),
        incomingQuestions)

promoteQuestions(existingQuestions, incomingQuestions, newInsights) ==
    addQuestions(
        SelectSeq(existingQuestions,
                  LAMBDA q : ~\E i \in 1..Len(newInsights) : answers(q.text, newInsights[i].text)),
        incomingQuestions)

\* a connection merge that never looks for the target
mergeConnection_alwaysAppend(merged, conn) == Append(merged, conn)

mergeConnection(merged, conn) ==
    LET match == findIndex(merged, LAMBDA c : normalize(c.target) = normalize(conn.target))
    IN  IF match > 0
        THEN IF Len(conn.text) > Len(merged[match].text)
             THEN [merged EXCEPT ![match].text = conn.text]
             ELSE merged
        ELSE Append(merged, conn)

RECURSIVE mergeConnections(_, _)
mergeConnections(existing, incoming) ==
    IF incoming = <<>> THEN existing
    ELSE mergeConnections(mergeConnection(existing, incoming[1]), Tail(incoming))

\* arr.slice(0, i) ++ arr.slice(i + 1) for the 1-based index i
removeAt(arr, i) == SubSeq(arr, 1, i - 1) \o SubSeq(arr, i + 1, Len(arr))
\* findLastIndex scanning from the front
lastNonSig_first(insights) ==
    IF \E i \in 1..Len(insights) : ~insights[i].significant
    THEN Min({i \in 1..Len(insights) : ~insights[i].significant}) ELSE 0
\* findLastIndex(arr, (i) => !i.significant) + 1
lastNonSig(insights) ==
    IF \E i \in 1..Len(insights) : ~insights[i].significant
    THEN Max({i \in 1..Len(insights) : ~insights[i].significant}) ELSE 0
\* the insight-trimming loop without the preference for non-significant insights
dropInsight_lastOnly(insights) == SubSeq(insights, 1, Len(insights) - 1)
\* the body of the insight-trimming loop
dropInsight(insights) ==
    IF lastNonSig(insights) > 0 THEN removeAt(insights, lastNonSig(insights))
    ELSE SubSeq(insights, 1, Len(insights) - 1)

overBudget(d, budget) == estimateTokens(serializeMkf(d)) > budget

RECURSIVE trimInsights(_, _)
trimInsights(d, budget) ==
    IF overBudget(d, budget) /\ Len(d.tier2.insights) > 1
    THEN trimInsights([d EXCEPT !.tier2.insights = dropInsight(d.tier2.insights)], budget)
    ELSE d
\* a question loop that removes every question in one iteration
trimQuestions_all(d, budget) ==
    IF overBudget(d, budget) /\ Len(d.tier2.questions) > 0
    THEN [d EXCEPT !.tier2.questions = <<>>]
    ELSE d

RECURSIVE trimQuestions(_, _)
trimQuestions(d, budget) ==
    IF overBudget(d, budget) /\ Len(d.tier2.questions) > 0
    THEN trimQuestions([d EXCEPT !.tier2.questions = SubSeq(@, 1, Len(@) - 1)], budget)
    ELSE d
RECURSIVE trimConnections(_, _)
trimConnections(d, budget) ==
    IF overBudget(d, budget) /\ Len(d.tier2.connections) > 0
    THEN trimConnections([d EXCEPT !.tier2.connections = SubSeq(@, 1, Len(@) - 1)], budget)
    ELSE d

\* enforceTokenBudget going on to the frameworks, as trimToBudget does
enforceTokenBudget_thenFrameworks(d) ==
    LET trimmed == trimConnections(trimQuestions(trimInsights(d, MAX_MKF_TOKENS),
                                                 MAX_MKF_TOKENS), MAX_MKF_TOKENS)
    IN  IF estimateTokens(serializeMkf(d)) <= MAX_MKF_TOKENS THEN d
        ELSE IF overBudget(trimmed, MAX_MKF_TOKENS)
        THEN [trimmed EXCEPT !.tier2.frameworks = SubSeq(@, 1, Len(@) - 1)]
        ELSE trimmed

enforceTokenBudget(d) ==
    IF estimateTokens(serializeMkf(d)) <= MAX_MKF_TOKENS THEN d
    ELSE trimConnections(trimQuestions(trimInsights(d, MAX_MKF_TOKENS), MAX_MKF_TOKENS),
                         MAX_MKF_TOKENS)

\* the document mergeMkf builds before it enforces the budget
mergeFields(existing, ch) ==
    [header |-> mergeHeaders(existing.header, ch.header),
     tier1  |-> [themes        |-> mergeThemes(existing.tier1.themes, ch.tier1.themes),
                 relationships |-> mergeRelationships(existing.tier1.relationships,
                                                      ch.tier1.relationships),
                 structure     |-> mergeProperties(existing.tier1.structure, ch.tier1.structure),
                 concepts      |-> mergeConcepts(existing.tier1.concepts, ch.tier1.concepts),
                 facts         |-> [entries |-> mergeRecords(existing.tier1.facts.entries,
                                                             ch.tier1.facts.entries)]],
     tier2  |-> [insights    |-> mergeInsights(existing.tier2.insights, ch.tier2.insights),
                 questions   |-> promoteQuestions(existing.tier2.questions, ch.tier2.questions,
                                                  ch.tier2.insights),
                 connections |-> mergeConnections(existing.tier2.connections,
                                                  ch.tier2.connections),
                 frameworks  |-> mergeFrameworks(existing.tier2.frameworks, ch.tier2.frameworks)],
     meta   |-> [session          |-> strOr(existing.meta.session, ch.meta.session),
                 chaptersRead     |-> strOr(ch.meta.chaptersRead, existing.meta.chaptersRead),
                 confidence       |-> IF ~IsNaN(existing.meta.confidence)
                                         /\ existing.meta.confidence[1].m > 0
                                      THEN IF IsNaN(ch.meta.confidence) THEN NaN
                                           ELSE numMin1(numAverage(existing.meta.confidence,
                                                                   ch.meta.confidence))
                                      ELSE ch.meta.confidence,
                 compressionRatio |-> strOr(ch.meta.compressionRatio,
                                            existing.meta.compressionRatio),
                 needsReread      |-> OrElse(ch.meta.needsReread, existing.meta.needsReread),
                 distilledFrom    |-> OrElse(ch.meta.distilledFrom, existing.meta.distilledFrom),
                 format           |-> strOr(existing.meta.format, ch.meta.format)]]

mergeMkf(existing, ch) == enforceTokenBudget(mergeFields(existing, ch))

-----------------------------------------------------------------------------
(* compress.ts *)

DEFAULT_TARGET_TOKENS == 2500

\* a comparator that ranks the shorter text first within a class
insightBefore_shorterFirst(a, b) ==
    IF a.significant # b.significant THEN a.significant
    ELSE Len(a.text) < Len(b.text)

\* the comparator of sortInsights: a sorts strictly before b
insightBefore(a, b) ==
    IF a.significant # b.significant THEN a.significant
    ELSE Len(a.text) > Len(b.text)

\* a sort that is not stable: insights that compare equal come out in reverse order
sortInsights_tiesReversed(insights) ==
    LET n == Len(insights)
        rank(i) == Cardinality({j \in 1..n : \/ insightBefore(insights[j], insights[i])
                                             \/ (~insightBefore(insights[i], insights[j]) /\ j > i)}) + 1
    IN  [r \in 1..n |-> insights[CHOOSE i \in 1..n : rank(i) = r]]

\* [...insights].sort(cmp): Array.prototype.sort is stable
sortInsights(insights) ==
    LET n == Len(insights)
        rank(i) == Cardinality({j \in 1..n : \/ insightBefore(insights[j], insights[i])
                                             \/ (~insightBefore(insights[i], insights[j]) /\ j < i)}) + 1
    IN  [r \in 1..n |-> insights[CHOOSE i \in 1..n : rank(i) = r]]

\* text.toLowerCase().replace(/[^a-z0-9\s_]/g, "").split(/[\s_]+/).filter((w) => w.length > 2)
extractContentWords(s) ==
    SelectSeq(splitRuns(stripPunctuation(s), LAMBDA c : IsWs(c) \/ c = "_"), LAMBDA w : Len(w) > 2)

\* the words addWords adds for a list of named blocks: names and property values
namedWords(items) ==
    UNION {seqToSet(extractContentWords(items[i].name))
             \cup UNION {seqToSet(extractContentWords(items[i].properties[j].v)) :
                           j \in 1..Len(items[i].properties)} : i \in 1..Len(items)}

tier1Words(d) ==
    namedWords(d.tier1.themes) \cup namedWords(d.tier1.concepts)
    \cup UNION {seqToSet(extractContentWords(d.tier1.facts.entries[j].v)) :
                  j \in 1..Len(d.tier1.facts.entries)}

\* the filter of pruneRedundantInsights keeps this insight
keepInsight(insight, words) ==
    LET insightWords == extractContentWords(insight.text)
        overlapCount == Cardinality({i \in 1..Len(insightWords) : insightWords[i] \in words})
    IN  \/ insight.significant
        \/ Len(insightWords) = 0
        \/ 10 * overlapCount < 7 * Len(insightWords)

pruneRedundantInsights(d) ==
    LET words == tier1Words(d)
    IN  [d EXCEPT !.tier2.insights = SelectSeq(@, LAMBDA i : keepInsight(i, words))]

\* trimFrameworks going on into the structural tier once the frameworks are gone
trimFrameworks_thenThemes(d, budget) ==
    IF overBudget(d, budget)
    THEN [d EXCEPT !.tier2.frameworks = <<>>, !.tier1.themes = <<>>]
    ELSE d

RECURSIVE trimFrameworks(_, _)
trimFrameworks(d, budget) ==
    IF overBudget(d, budget) /\ Len(d.tier2.frameworks) > 0
    THEN trimFrameworks([d EXCEPT !.tier2.frameworks = SubSeq(@, 1, Len(@) - 1)], budget)
    ELSE d

trimToBudget(d, budget) ==
    IF estimateTokens(serializeMkf(d)) <= budget THEN d
    ELSE trimFrameworks(
            trimConnections(trimQuestions(trimInsights(d, budget), budget), budget), budget)

finalizeCompression(d, targetTokens) ==
    trimToBudget(
        pruneRedundantInsights([d EXCEPT !.tier2.insights = sortInsights(@)]),
        targetTokens)

-----------------------------------------------------------------------------
(* file.ts *)

\* every character the model's strings are made of; its index is the character's code
Alphabet ==
    UpperChars \o LowerChars \o DigitChars
    \o <<" ", "\n", "\t", ":", "!", "?", "~", "@", "|", "-", "_", ".", "%", ">", ",", ";", "#",
         "(", ")", "[", "]", "{", "}", "/", "'", "=", "+", "*", "&", "<">>
HexChars == <<"0","1","2","3","4","5","6","7","8","9","a","b","c","d","e","f">>
CharCode(c) == CHOOSE i \in 1..Len(Alphabet) : Alphabet[i] = c

\* createHash("sha256").update(content).digest("hex"), idealised: a digest in
\* hexadecimal digits that differs for any two different contents (no collisions);
\* here, the two hexadecimal digits of each character's code
sha256hex(content) ==
    [i \in 1..(2 * Len(content)) |->
        IF i % 2 = 1 THEN HexChars[(CharCode(content[(i + 1) \div 2]) \div 16) + 1]
        ELSE HexChars[(CharCode(content[i \div 2]) % 16) + 1]]

\* the scan of parseMkfFile over the lines before the delimiter
parseMkfFile(raw) ==
    LET lines  == split(raw, NL)
        delims == {i \in 1..Len(lines) : lines[i] = ENVELOPE_DELIMITER}
        delimiterIdx == IF delims = {} THEN 0 ELSE Min(delims)
        vers   == {i \in 1..(delimiterIdx - 1) : startsWith(lines[i], L_mkfPrefix)}
        shas   == {i \in 1..(delimiterIdx - 1) : /\ ~startsWith(lines[i], L_mkfPrefix)
                                                 /\ startsWith(lines[i], L_shaPrefix)}
    IN  IF delimiterIdx = 0
        THEN [version |-> <<>>, sha256 |-> <<>>, content |-> raw]
        ELSE [version |-> IF vers = {} THEN <<>> ELSE sliceFrom(lines[Max(vers)], 5),
              sha256  |-> IF shas = {} THEN <<>> ELSE <<sliceFrom(lines[Max(shas)], 8)>>,
              content |-> join(SubSeq(lines, delimiterIdx + 1, Len(lines)), <<NL>>)]

\* reader && !doc.header.reader ? { ...doc, header: { ...doc.header, reader } } : doc
docWithReader(d, rdr) ==
    IF Truthy(rdr) /\ ~Truthy(d.header.reader) THEN [d EXCEPT !.header.reader = rdr] ELSE d

\* serializeMkfFile with the digest computed before the reader is set
serializeMkfFile_digestBeforeReader(d, rdr) ==
    LET content == serializeMkf(docWithReader(d, rdr))
        hash    == sha256hex(serializeMkf(d))
    IN  join(<<MKF_MAGIC, L_shaPrefix \o hash, ENVELOPE_DELIMITER, content>>, <<NL>>)

serializeMkfFile(d, rdr) ==
    LET content == serializeMkf(docWithReader(d, rdr))
        hash    == sha256hex(content)
    IN  join(<<MKF_MAGIC, L_shaPrefix \o hash, ENVELOPE_DELIMITER, content>>, <<NL>>)

\* validateMkfFile without the digest check
validateMkfFile_noDigestCheck(raw) ==
    LET envelope == parseMkfFile(raw)
    IN  IF envelope.version = <<>>
        THEN [valid |-> FALSE, error |-> "Missing %MKF version header"]
        ELSE IF ~startsWith(envelope.version, L_one_dot)
        THEN [valid |-> FALSE, error |-> "Unsupported MKF version"]
        ELSE [valid |-> TRUE, error |-> "undefined"]

\* validateMkfFile with the digest check ahead of the version check
validateMkfFile_digestFirst(raw) ==
    LET envelope == parseMkfFile(raw)
    IN  IF Truthy(envelope.sha256) /\ sha256hex(envelope.content) # envelope.sha256[1]
        THEN [valid |-> FALSE, error |-> "SHA-256 integrity check failed"]
        ELSE IF envelope.version = <<>>
        THEN [valid |-> FALSE, error |-> "Missing %MKF version header"]
        ELSE IF ~startsWith(envelope.version, L_one_dot)
        THEN [valid |-> FALSE, error |-> "Unsupported MKF version"]
        ELSE [valid |-> TRUE, error |-> "undefined"]

validateMkfFile(raw) ==
    LET envelope == parseMkfFile(raw)
    IN  IF envelope.version = <<>>
        THEN [valid |-> FALSE, error |-> "Missing %MKF version header"]
        ELSE IF ~startsWith(envelope.version, L_one_dot)
        THEN [valid |-> FALSE, error |-> "Unsupported MKF version"]
        ELSE IF Truthy(envelope.sha256) /\ sha256hex(envelope.content) # envelope.sha256[1]
        THEN [valid |-> FALSE, error |-> "SHA-256 integrity check failed"]
        ELSE [valid |-> TRUE, error |-> "undefined"]

-----------------------------------------------------------------------------
(* the reading session: createSession, advancePosition *)

\* a Book is modelled by the number of its chapters; of a ReadingState the position, the
\* summary, the reflections and the completed flag are kept (the identifiers and the
\* timestamps are left out)
createSession(book) ==
    [currentChapter |-> 0, currentChunk |-> 0, totalChapters |-> book.chapters,
     runningSummary |-> <<>>, reflections |-> <<>>, completed |-> FALSE]

\* opts: nextChapter and nextChunk are tested for truth (absent counts as false),
\* runningSummary and reflection are optional
advancePosition(state, opts) ==
    LET u1 == IF opts.runningSummary # <<>>
              THEN [state EXCEPT !.runningSummary = opts.runningSummary[1]] ELSE state
        u2 == IF opts.reflection # <<>>
              THEN [u1 EXCEPT !.reflections = Append(state.reflections, opts.reflection[1])]
              ELSE u1
    IN  IF opts.nextChapter
        THEN [u2 EXCEPT !.currentChapter = state.currentChapter + 1,
                        !.currentChunk = 0,
                        !.completed = IF state.currentChapter + 1 >= state.totalChapters
                                      THEN TRUE ELSE @]
        ELSE IF opts.nextChunk
        THEN [u2 EXCEPT !.currentChunk = state.currentChunk + 1]
        ELSE u2

\* the object that was passed to advancePosition, once the call has returned: the
\* function assigns only to its copy ({ ...state }) and builds a new reflections array
\* ([...state.reflections, opts.reflection]), so the argument keeps every field
argumentAfterAdvance(state, opts) == state

-----------------------------------------------------------------------------
(* The inputs: strings, and the chapter documents merged into the running document *)

s_Frankenstein == <<"F", "r", "a", "n", "k", "e", "n", "s", "t", "e", "i", "n">>
s_Shelley == <<"M", "a", "r", "y", " ", "S", "h", "e", "l", "l", "e", "y">>
s_deb1 == <<"d", "e", "b", "1", "a", "5">>
s_110K == <<"1", "1", "0", "K">>
s_78K == <<"7", "8", "K">>
s_date1 == <<"2", "0", "2", "6", "-", "0", "2", "-", "0", "6">>
s_date2 == <<"2", "0", "2", "6", "-", "0", "2", "-", "0", "7">>
s_Aiden == <<"A", "i", "d", "e", "n", "@", "a", "b", "u", "t", "l", "a", "b", "s">>
s_Ambition == <<"A", "m", "b", "i", "t", "i", "o", "n">>
s_ambition == <<"a", "m", "b", "i", "t", "i", "o", "n">>
s_Isolation == <<"I", "s", "o", "l", "a", "t", "i", "o", "n">>
s_drive == <<"d", "r", "i", "v", "e">>
s_glory == <<"g", "l", "o", "r", "y">>
s_gloryRuin == <<"g", "l", "o", "r", "y", " ", "a", "n", "d", " ", "r", "u", "i", "n">>
s_cause == <<"c", "a", "u", "s", "e">>
s_obsession == <<"o", "b", "s", "e", "s", "s", "i", "o", "n">>
s_k1 == <<"1">>
s_k2 == <<"2">>
s_a == <<"a">>
s_b == <<"b">>
s_Victor == <<"V", "i", "c", "t", "o", "r">>
s_victor == <<"v", "i", "c", "t", "o", "r">>
s_creates == <<"c", "r", "e", "a", "t", "e", "s">>
s_Creature == <<"C", "r", "e", "a", "t", "u", "r", "e">>
s_creature == <<"c", "r", "e", "a", "t", "u", "r", "e">>
s_abandons == <<"t", "h", "e", "n", " ", "a", "b", "a", "n", "d", "o", "n", "s">>
s_form == <<"f", "o", "r", "m">>
s_epistolary == <<"e", "p", "i", "s", "t", "o", "l", "a", "r", "y">>
s_hubris == <<"h", "u", "b", "r", "i", "s">>
s_Hubris == <<"H", "u", "b", "r", "i", "s">>
s_def == <<"d", "e", "f">>
s_overreach == <<"o", "v", "e", "r", "r", "e", "a", "c", "h">>
s_pride == <<"p", "r", "i", "d", "e">>
s_setting == <<"s", "e", "t", "t", "i", "n", "g">>
s_Geneva == <<"G", "e", "n", "e", "v", "a">>
s_GenevaIngolstadt == <<"G", "e", "n", "e", "v", "a", " ", "a", "n", "d", " ", "I", "n", "g", "o", "l", "s", "t", "a", "d", "t">>
s_insIdentity == <<"R", "e", "a", "d", "i", "n", "g", " ", "b", "o", "o", "k", "s", " ", "s", "h", "a", "p", "e", "s", " ", "i", "d", "e", "n", "t", "i", "t", "y">>
s_insIdentityShort == <<"R", "e", "a", "d", "i", "n", "g", " ", "s", "h", "a", "p", "e", "s", " ", "i", "d", "e", "n", "t", "i", "t", "y">>
s_insIdentityLong == <<"B", "o", "o", "k", "s", " ", "s", "h", "a", "p", "e", "s", " ", "i", "d", "e", "n", "t", "i", "t", "y", " ", "s", "o", " ", "d", "e", "e", "p", "l", "y">>
s_insAmbition == <<"A", "m", "b", "i", "t", "i", "o", "n", " ", "d", "e", "s", "t", "r", "o", "y", "s", " ", "r", "e", "l", "a", "t", "i", "o", "n", "s", "h", "i", "p", "s">>
s_insStop == <<"I", "t", " ", "i", "s", " ", "s", "o">>
s_qNarrator == <<"W", "h", "y", " ", "a", " ", "f", "a", "i", "l", "e", "d", " ", "n", "a", "r", "r", "a", "t", "o", "r", "?">>
s_qAmbition == <<"D", "o", "e", "s", " ", "a", "m", "b", "i", "t", "i", "o", "n", " ", "d", "e", "s", "t", "r", "o", "y", " ", "r", "e", "l", "a", "t", "i", "o", "n", "s", "h", "i", "p", "s", "?">>
s_qStop == <<"S", "o", "?">>
s_otherBook == <<"o", "t", "h", "e", "r", "_", "b", "o", "o", "k">>
s_OtherBook == <<"O", "t", "h", "e", "r", " ", "B", "o", "o", "k">>
s_sharedTheme == <<"s", "h", "a", "r", "e", "d", " ", "t", "h", "e", "m", "e">>
s_sharedThemeLong == <<"s", "h", "a", "r", "e", "d", " ", "t", "h", "e", "m", "e", " ", "o", "f", " ", "c", "r", "e", "a", "t", "i", "o", "n">>
s_paradise == <<"P", "a", "r", "a", "d", "i", "s", "e", "_", "L", "o", "s", "t">>
s_link == <<"l", "i", "n", "k">>
s_duty == <<"c", "r", "e", "a", "t", "o", "r", " ", "d", "u", "t", "y">>
s_rule == <<"r", "u", "l", "e">>
s_owe == <<"c", "r", "e", "a", "t", "o", "r", "s", " ", "o", "w", "e", " ", "c", "a", "r", "e">>
s_archive == <<"a", "r", "c", "h", "i", "v", "e">>
s_note == <<"n", "o", "t", "e">>
s_frank == <<"f", "r", "a", "n", "k", "-", "0", "1">>
s_ch1 == <<"1", "/", "3", "1">>
s_ch2 == <<"2", "/", "3", "1">>
s_ratio == <<"1", "1", "0", "K", " ", "t", "o", " ", "2", "K">>
s_fmt10 == <<"M", "K", "F", " ", "v", "1", ".", "0">>
s_filler == <<"f", "i", "l", "l", "e", "r", " ">>
s_padding == <<"p", "a", "d", "d", "i", "n", "g", " ">>
s_first == <<"f", "i", "r", "s", "t", " ">>
s_second == <<"s", "e", "c", "o", "n", "d", " ">>

s_insSeventy == <<"G", "e", "n", "e", "v", "a", " ", "a", "n", "d", " ", "I", "n", "g", "o", "l", "s", "t", "a", "d", "t", " ", "f", "r", "a", "m", "e", " ", "i", "s", "o", "l", "a", "t", "i", "o", "n", " ", "a", "n", "d", " ", "o", "b", "s", "e", "s", "s", "i", "o", "n", " ", "a", "n", "d", " ", "c", "o", "l", "d", " ", "e", "x", "i", "l", "e">>
s_insVictor == <<"V", "i", "c", "t", "o", "r", " ", "c", "r", "e", "a", "t", "e", "s", " ", "C", "r", "e", "a", "t", "u", "r", "e">>

\* lengths of the long strings: two medium strings, or one big one, exceed the
\* 3200-token ceiling (12800 characters)
MediumLen == 7000
BigLen == 13000
Rep(c, n) == [i \in 1..n |-> c]
s_nMedium == s_filler \o Rep("x", MediumLen)
s_qMedium == s_padding \o Rep("y", MediumLen)
s_sMedium1 == s_first \o Rep("s", MediumLen)
s_sMedium2 == s_second \o Rep("t", MediumLen)
s_big == Rep("z", BigLen)
s_ledger == <<"L", "e", "d", "g", "e", "r">>
s_cMedium == <<"e", "n", "t", "r", "y", " ">> \o Rep("w", MediumLen)
s_fwMedium == Rep("v", MediumLen)

Prop(key, value) == [k |-> key, v |-> value]
emptyHeader == emptyMkf.header
emptyTier1 == emptyMkf.tier1
emptyTier2 == emptyMkf.tier2

\* chapter 1: one of everything
X1 ==
    [header |-> [book |-> s_Frankenstein, by |-> s_Shelley, id |-> s_deb1, tokens |-> s_110K,
                 words |-> s_78K, chapters |-> Num(31, 0), read |-> s_date1, reader |-> <<>>],
     tier1  |-> [themes        |-> <<[name |-> s_Ambition,
                                      properties |-> recordFrom(<<Prop(s_drive, s_glory)>>)]>>,
                 relationships |-> <<[from |-> s_Victor, arrow |-> s_creates, to |-> s_Creature,
                                      annotation |-> <<>>]>>,
                 structure     |-> [properties |-> recordFrom(<<Prop(s_form, s_epistolary)>>)],
                 concepts      |-> <<[name |-> s_hubris,
                                      properties |-> recordFrom(<<Prop(s_def, s_overreach)>>)]>>,
                 facts         |-> [entries |-> recordFrom(<<Prop(s_setting, s_Geneva)>>)]],
     tier2  |-> [insights    |-> <<[significant |-> TRUE, text |-> s_insIdentity]>>,
                 questions   |-> <<[text |-> s_qNarrator], [text |-> s_qAmbition]>>,
                 connections |-> <<[target |-> s_otherBook, text |-> s_sharedTheme]>>,
                 frameworks  |-> <<>>],
     meta   |-> [session |-> s_frank, chaptersRead |-> s_ch1, confidence |-> Num(5, 1),
                 compressionRatio |-> <<>>, needsReread |-> <<>>, distilledFrom |-> <<>>,
                 format |-> L_fmt01]]

\* chapter 2: the same entities under other spellings, longer values, integer-like
\* keys, two insights that each overlap the insight of chapter 1 by 0.6 or more
\* (3/4 and 3/5) but each other by 2/5, an insight that answers a question of chapter 1
X2 ==
    [header |-> [emptyHeader EXCEPT !.book = s_Ambition, !.read = s_date2, !.reader = <<s_Aiden>>],
     tier1  |-> [themes        |-> <<[name |-> s_ambition,
                                      properties |-> recordFrom(<<Prop(s_drive, s_gloryRuin),
                                                                  Prop(s_k2, s_b), Prop(s_k1, s_a)>>)],
                                     [name |-> s_Isolation,
                                      properties |-> recordFrom(<<Prop(s_cause, s_obsession)>>)]>>,
                 relationships |-> <<[from |-> s_victor, arrow |-> s_creates, to |-> s_creature,
                                      annotation |-> s_abandons]>>,
                 structure     |-> [properties |-> <<>>],
                 concepts      |-> <<[name |-> s_Hubris,
                                      properties |-> recordFrom(<<Prop(s_def, s_pride)>>)]>>,
                 facts         |-> [entries |-> recordFrom(<<Prop(s_setting, s_GenevaIngolstadt)>>)]],
     tier2  |-> [insights    |-> <<[significant |-> FALSE, text |-> s_insIdentityShort],
                                   [significant |-> FALSE, text |-> s_insIdentityLong],
                                   [significant |-> FALSE, text |-> s_insAmbition]>>,
                 questions   |-> <<[text |-> s_qNarrator]>>,
                 connections |-> <<[target |-> s_OtherBook, text |-> s_sharedThemeLong]>>,
                 frameworks  |-> <<[name |-> s_duty,
                                    properties |-> recordFrom(<<Prop(s_rule, s_owe)>>)]>>],
     meta   |-> [session |-> <<>>, chaptersRead |-> s_ch2, confidence |-> Num(75, 2),
                 compressionRatio |-> s_ratio, needsReread |-> <<>>, distilledFrom |-> <<>>,
                 format |-> s_fmt10]]

\* a chapter whose insight and question hold no content word, that names one theme
\* twice, and that carries a medium connection
X3 ==
    [header |-> emptyHeader,
     tier1  |-> [emptyTier1 EXCEPT
                   !.themes = <<[name |-> s_Isolation,
                                 properties |-> recordFrom(<<Prop(s_cause, s_pride)>>)],
                                [name |-> s_Isolation,
                                 properties |-> recordFrom(<<Prop(s_cause, s_glory)>>)]>>],
     tier2  |-> [emptyTier2 EXCEPT !.insights = <<[significant |-> FALSE, text |-> s_insStop]>>,
                                   !.questions = <<[text |-> s_qStop]>>,
                                   !.connections = <<[target |-> s_ledger, text |-> s_cMedium]>>],
     meta   |-> [emptyMkf.meta EXCEPT !.confidence = Num(1, 0)]]

\* a chapter with a medium non-significant insight, a medium question and a connection
X4 ==
    [header |-> emptyHeader,
     tier1  |-> emptyTier1,
     tier2  |-> [emptyTier2 EXCEPT !.insights = <<[significant |-> FALSE, text |-> s_nMedium]>>,
                                   !.questions = <<[text |-> s_qMedium]>>,
                                   !.connections = <<[target |-> s_paradise, text |-> s_link]>>],
     meta   |-> emptyMkf.meta]

\* a chapter with a medium framework and a connection
X5 ==
    [header |-> emptyHeader,
     tier1  |-> emptyTier1,
     tier2  |-> [emptyTier2 EXCEPT !.frameworks = <<[name |-> s_archive,
                                      properties |-> recordFrom(<<Prop(s_note, s_fwMedium)>>)]>>,
                                   !.connections = <<[target |-> s_paradise, text |-> s_link]>>],
     meta   |-> emptyMkf.meta]

\* a chapter with two medium significant insights
X6 ==
    [header |-> emptyHeader,
     tier1  |-> emptyTier1,
     tier2  |-> [emptyTier2 EXCEPT !.insights = <<[significant |-> TRUE, text |-> s_sMedium1],
                                                  [significant |-> TRUE, text |-> s_sMedium2]>>],
     meta   |-> emptyMkf.meta]

\* a chapter whose only insight, not significant, alone exceeds the ceiling
X7 ==
    [header |-> emptyHeader,
     tier1  |-> emptyTier1,
     tier2  |-> [emptyTier2 EXCEPT !.insights = <<[significant |-> FALSE, text |-> s_big]>>],
     meta   |-> emptyMkf.meta]

\* a chapter with one short insight that overlaps the insight of chapter 1 by 3/4, a
\* second author and chapter count, a property named like a member of
\* Object.prototype under a theme of chapter 1, and a fact under an integer-like key
X8 ==
    [header |-> [emptyHeader EXCEPT !.by = s_Victor, !.chapters = Num(12, 0)],
     tier1  |-> [emptyTier1 EXCEPT
                   !.themes = <<[name |-> s_ambition,
                                 properties |-> recordFrom(<<Prop(N_constructor, s_a)>>)]>>,
                   !.facts = [entries |-> recordFrom(<<Prop(s_k1, s_a)>>)]],
     tier2  |-> [emptyTier2 EXCEPT !.insights = <<[significant |-> FALSE,
                                                   text |-> s_insIdentityShort]>>],
     meta   |-> emptyMkf.meta]

\* a chapter with two non-significant insights: seven of the ten content words of the
\* first are words of its theme and facts, the three words of the second are those of
\* its relationship; it states the relationship twice and names one connection twice
X9 ==
    [header |-> emptyHeader,
     tier1  |-> [emptyTier1 EXCEPT
                   !.themes = <<[name |-> s_Isolation,
                                 properties |-> recordFrom(<<Prop(s_cause, s_obsession)>>)]>>,
                   !.relationships = <<[from |-> s_Victor, arrow |-> s_creates,
                                        to |-> s_Creature, annotation |-> <<>>],
                                       [from |-> s_victor, arrow |-> s_creates,
                                        to |-> s_creature, annotation |-> <<>>]>>,
                   !.facts = [entries |-> recordFrom(<<Prop(s_setting, s_GenevaIngolstadt)>>)]],
     tier2  |-> [emptyTier2 EXCEPT !.insights = <<[significant |-> FALSE, text |-> s_insSeventy],
                                                  [significant |-> FALSE, text |-> s_insVictor]>>,
                                   !.connections = <<[target |-> s_otherBook, text |-> s_link],
                                                     [target |-> s_OtherBook, text |-> s_link]>>],
     meta   |-> emptyMkf.meta]

Chapters == {X1, X2, X3, X4, X5, X6, X7, X8, X9}
\* the targetTokens passed to finalizeCompression
Targets == {DEFAULT_TARGET_TOKENS, 100, 60}
\* the number of chapters merged into one running document
MaxMerges == 2

NoOverlap == [num |-> 0, den |-> 1]
NoVerdict == [valid |-> FALSE, error |-> "not validated"]
NotForged == [version |-> <<>>, digest |-> "none"]
NoSession == createSession([chapters |-> 0])
NoOptions == [nextChapter |-> FALSE, nextChunk |-> FALSE, runningSummary |-> <<>>,
              reflection |-> <<>>]
NoCall == [opts |-> NoOptions, before |-> NoSession, after |-> NoSession]

-----------------------------------------------------------------------------
(* The reading session: chapters are merged into the running document, the last
   chapter may be merged a second time, and the final compression ends it *)

Init ==
    /\ doc = emptyMkf
    /\ prev = emptyMkf
    /\ chapter = emptyMkf
    /\ fields = emptyMkf
    /\ target = 0
    /\ text = <<>>
    /\ reader = <<>>
    /\ forged = NotForged
    /\ verdict = NoVerdict
    /\ op = "init"
    /\ steps = 0
    /\ textA = <<>>
    /\ textB = <<>>
    /\ overlap = NoOverlap
    /\ emitted = <<>>
    /\ session = NoSession
    /\ call = NoCall

Merge(x) ==
    /\ op \in {"init", "merge"}
    /\ steps < MaxMerges
    /\ prev' = doc
    /\ chapter' = x
    /\ fields' = mergeFields(doc, x)
    /\ doc' = enforceTokenBudget(fields')
    /\ op' = "merge"
    /\ steps' = steps + 1
    /\ UNCHANGED <<emitted, session, call, textA, textB, overlap, target, text, reader, forged, verdict>>

Remerge ==
    /\ op = "merge"
    /\ prev' = doc
    /\ fields' = mergeFields(doc, chapter)
    /\ doc' = enforceTokenBudget(fields')
    /\ op' = "remerge"
    /\ UNCHANGED <<emitted, session, call, textA, textB, overlap, chapter, steps, target, text, reader, forged, verdict>>

Compress(t) ==
    /\ op \in {"merge", "remerge"}
    /\ prev' = doc
    /\ target' = t
    /\ fields' = pruneRedundantInsights([doc EXCEPT !.tier2.insights = sortInsights(@)])
    /\ doc' = trimToBudget(fields', t)
    /\ op' = "compress"
    /\ UNCHANGED <<emitted, session, call, textA, textB, overlap, chapter, steps, text, reader, forged, verdict>>

Next ==
    \/ \E x \in Chapters : Merge(x)
    \/ Remerge
    \/ \E t \in Targets : Compress(t)

Spec == Init /\ [][Next]_vars

-----------------------------------------------------------------------------
(* Budget *)

significantInsights(d) == SelectSeq(d.tier2.insights, LAMBDA i : i.significant)
\* the document reduced to what the budget rule exempts: header, structural tier,
\* significant insights and meta
structuralAndSignificant(d) ==
    [d EXCEPT !.tier2 = [insights |-> significantInsights(d), questions |-> <<>>,
                         connections |-> <<>>, frameworks |-> <<>>]]
tokensOf(d) == estimateTokens(serializeMkf(d))
IsPrefix(a, b) == Len(a) <= Len(b) /\ SubSeq(b, 1, Len(a)) = a

\* C3: after mergeMkf the document is within 3200 tokens, or its structural tier
\* plus its significant insights alone exceed 3200 tokens
C3_MergeWithinBudget ==
    op \in {"merge", "remerge"} =>
        \/ tokensOf(doc) <= MAX_MKF_TOKENS
        \/ tokensOf(structuralAndSignificant(doc)) > MAX_MKF_TOKENS

\* C4: after finalizeCompression the document is within targetTokens, or its structural
\* tier plus its significant insights alone exceed targetTokens
C4_CompressionWithinBudget ==
    op = "compress" =>
        \/ tokensOf(doc) <= target
        \/ tokensOf(structuralAndSignificant(doc)) > target

\* C5 as claimed: budget enforcement never removes a significant insight
C5_NoSignificantInsightRemoved ==
    op \in {"merge", "remerge", "compress"} =>
        significantInsights(doc) = significantInsights(fields)

\* C5, amended: budget enforcement removes a significant insight only once no
\* non-significant insight is left, removes significant insights from the end, and
\* always keeps the first one
C5_SignificantRemovedLast ==
    op \in {"merge", "remerge", "compress"} =>
        /\ IsPrefix(significantInsights(doc), significantInsights(fields))
        /\ (significantInsights(fields) # <<>> => significantInsights(doc) # <<>>)
        /\ (significantInsights(doc) # significantInsights(fields)
               => doc.tier2.insights = significantInsights(doc))

\* the budget enforcement of a merge removed a significant insight from a document
\* that also held a non-significant one
C5_Witness ==
    /\ op = "merge"
    /\ Len(significantInsights(doc)) < Len(significantInsights(fields))
    /\ \E i \in 1..Len(fields.tier2.insights) : ~fields.tier2.insights[i].significant

-----------------------------------------------------------------------------
(* Merging the same chapter twice *)

\* C6 as claimed: merging a chapter a second time leaves themes, concepts, relationships
\* and connections exactly as the first merge left them
C6_ExactKeyIdempotent ==
    op = "remerge" =>
        /\ doc.tier1.themes = prev.tier1.themes
        /\ doc.tier1.concepts = prev.tier1.concepts
        /\ doc.tier1.relationships = prev.tier1.relationships
        /\ doc.tier2.connections = prev.tier2.connections

\* every connection of the chapter has its target in the connections of d
holdsConnectionsOf(d, ch) ==
    \A i \in 1..Len(ch.tier2.connections) :
        \E j \in 1..Len(d.tier2.connections) :
            normalize(d.tier2.connections[j].target) = normalize(ch.tier2.connections[i].target)

\* C6, amended: merging a chapter a second time leaves themes, concepts and relationships
\* exactly as the first merge left them, and the connections too when the first merge
\* kept every connection of the chapter and the second merge trims no connection
C6_ExactKeyIdempotentUntrimmed ==
    op = "remerge" =>
        /\ doc.tier1.themes = prev.tier1.themes
        /\ doc.tier1.concepts = prev.tier1.concepts
        /\ doc.tier1.relationships = prev.tier1.relationships
        /\ (holdsConnectionsOf(prev, chapter) /\ doc.tier2.connections = fields.tier2.connections)
               => doc.tier2.connections = prev.tier2.connections

\* a chapter with themes, concepts, relationships and connections was merged twice into
\* a document that already held entities of other chapters
C6_Witness ==
    /\ op = "remerge"
    /\ chapter.tier1.themes # <<>> /\ chapter.tier1.concepts # <<>>
    /\ chapter.tier1.relationships # <<>> /\ chapter.tier2.connections # <<>>
    /\ Len(doc.tier1.themes) > Len(chapter.tier1.themes)
    /\ doc.tier1.themes[1].properties # chapter.tier1.themes[1].properties
    /\ holdsConnectionsOf(prev, chapter)
    /\ doc.tier2.connections = prev.tier2.connections

\* C7 as claimed: merging a chapter a second time grows neither insights nor questions
C7_RemergeNeverGrows ==
    op = "remerge" =>
        /\ Len(doc.tier2.insights) <= Len(prev.tier2.insights)
        /\ Len(doc.tier2.questions) <= Len(prev.tier2.questions)

\* C7, amended: merging a chapter whose only insight (only question) overlaps an insight
\* (a question) of the running document by 0.6 or more does not grow that collection
C7_DuplicateNeverGrows ==
    op \in {"merge", "remerge"} =>
        /\ (/\ Len(chapter.tier2.insights) = 1
            /\ \E i \in 1..Len(prev.tier2.insights) :
                  similar(prev.tier2.insights[i].text, chapter.tier2.insights[1].text))
           => Len(doc.tier2.insights) <= Len(prev.tier2.insights)
        /\ (/\ Len(chapter.tier2.questions) = 1
            /\ \E i \in 1..Len(prev.tier2.questions) :
                  similar(prev.tier2.questions[i].text, chapter.tier2.questions[1].text))
           => Len(doc.tier2.questions) <= Len(prev.tier2.questions)

\* a chapter whose only insight overlaps an insight of the running document was merged
\* a second time and the insights did not grow
C7_Witness ==
    /\ op = "remerge"
    /\ Len(chapter.tier2.insights) = 1
    /\ \E i \in 1..Len(prev.tier2.insights) :
          similar(prev.tier2.insights[i].text, chapter.tier2.insights[1].text)
    /\ Len(doc.tier2.insights) = Len(prev.tier2.insights)

-----------------------------------------------------------------------------
(* Round trip: a document is serialized and the text parsed back *)

v_plain == <<"C", "r", "e", "a", "t", "u", "r", "e">>
v_twoWords == <<"V", "i", "c", "t", "o", "r", " ", "F", "r", "a", "n", "k", "e", "n", "s", "t", "e", "i", "n">>
v_colonSpace == <<"D", "a", "n", "t", "e", ":", " ", "I", "n", "f", "e", "r", "n", "o">>
v_colon == <<"c", "a", "u", "s", "e", ":", "e", "f", "f", "e", "c", "t">>
v_leadingSpace == <<" ", "G", "e", "n", "e", "v", "a">>
v_bar == <<"o", "n", "e", " ", "|", " ", "t", "w", "o">>
v_bang == <<"!", " ", "m", "a", "r", "k", "e", "d">>
v_twoLines == <<"f", "i", "r", "s", "t", " ", "l", "i", "n", "e", "\n", "s", "e", "c", "o", "n", "d", " ", "l", "i", "n", "e">>
\* the string values placed in the fields of a document
FieldValues ==
    {v_plain, v_twoWords, v_colonSpace, v_colon, v_leadingSpace, v_bar, v_bang, v_twoLines, <<>>}

\* a document with one entry in every collection
RoundTripBase ==
    [X1 EXCEPT !.header.reader = <<s_Aiden>>,
               !.tier1.relationships = <<[from |-> s_Victor, arrow |-> s_creates,
                                          to |-> s_Creature, annotation |-> s_abandons]>>,
               !.tier2.questions = <<[text |-> s_qNarrator]>>,
               !.tier2.frameworks = <<[name |-> s_duty,
                                       properties |-> recordFrom(<<Prop(s_rule, s_owe)>>)]>>,
               !.meta.chaptersRead = s_ch1, !.meta.compressionRatio = s_ratio]

Fields ==
    {"header.book", "header.words", "theme.name", "theme.value", "rel.from", "rel.to",
     "rel.annotation", "structure.value", "concept.name", "facts.value", "insight.text",
     "question.text", "connection.target", "connection.text", "framework.name", "meta.session"}

withValue(d, f, v) ==
    CASE f = "header.book"       -> [d EXCEPT !.header.book = v]
      [] f = "header.words"      -> [d EXCEPT !.header.words = v]
      [] f = "theme.name"        -> [d EXCEPT !.tier1.themes[1].name = v]
      [] f = "theme.value"       -> [d EXCEPT !.tier1.themes[1].properties[1].v = v]
      [] f = "rel.from"          -> [d EXCEPT !.tier1.relationships[1].from = v]
      [] f = "rel.to"            -> [d EXCEPT !.tier1.relationships[1].to = v]
      [] f = "rel.annotation"    -> [d EXCEPT !.tier1.relationships[1].annotation = v]
      [] f = "structure.value"   -> [d EXCEPT !.tier1.structure.properties[1].v = v]
      [] f = "concept.name"      -> [d EXCEPT !.tier1.concepts[1].name = v]
      [] f = "facts.value"       -> [d EXCEPT !.tier1.facts.entries[1].v = v]
      [] f = "insight.text"      -> [d EXCEPT !.tier2.insights[1].text = v]
      [] f = "question.text"     -> [d EXCEPT !.tier2.questions[1].text = v]
      [] f = "connection.target" -> [d EXCEPT !.tier2.connections[1].target = v]
      [] f = "connection.text"   -> [d EXCEPT !.tier2.connections[1].text = v]
      [] f = "framework.name"    -> [d EXCEPT !.tier2.frameworks[1].name = v]
      [] f = "meta.session"      -> [d EXCEPT !.meta.session = v]

RoundTripDocs ==
    {RoundTripBase, emptyMkf, X1, X2} \cup {withValue(RoundTripBase, f, v) : f \in Fields, v \in FieldValues}

InitRT ==
    /\ doc \in RoundTripDocs
    /\ prev = emptyMkf
    /\ chapter = emptyMkf
    /\ fields = emptyMkf
    /\ target = 0
    /\ text = <<>>
    /\ reader = <<>>
    /\ forged = NotForged
    /\ verdict = NoVerdict
    /\ op = "document"
    /\ steps = 0
    /\ textA = <<>>
    /\ textB = <<>>
    /\ overlap = NoOverlap
    /\ emitted = <<>>
    /\ session = NoSession
    /\ call = NoCall

Serialize ==
    /\ op = "document"
    /\ text' = serializeMkf(doc)
    /\ prev' = doc
    /\ op' = "serialized"
    /\ UNCHANGED <<emitted, session, call, textA, textB, overlap, doc, chapter, fields, target, reader, forged, verdict, steps>>

Parse ==
    /\ op = "serialized"
    /\ doc' = parseMkf(text)
    /\ op' = "parsed"
    /\ UNCHANGED <<emitted, session, call, textA, textB, overlap, prev, chapter, fields, target, text, reader, forged, verdict, steps>>

NextRT == Serialize \/ Parse

SpecRT == InitRT /\ [][NextRT]_vars

\* an optional string that is set to "" counts as one that is absent
absentIfEmpty(o) == IF Truthy(o) THEN o ELSE <<>>
sameDocument(a, b) ==
    /\ [a.header EXCEPT !.reader = <<>>] = [b.header EXCEPT !.reader = <<>>]
    /\ absentIfEmpty(a.header.reader) = absentIfEmpty(b.header.reader)
    /\ a.tier1 = b.tier1
    /\ a.tier2 = b.tier2
    /\ [a.meta EXCEPT !.needsReread = <<>>, !.distilledFrom = <<>>]
         = [b.meta EXCEPT !.needsReread = <<>>, !.distilledFrom = <<>>]
    /\ absentIfEmpty(a.meta.needsReread) = absentIfEmpty(b.meta.needsReread)
    /\ absentIfEmpty(a.meta.distilledFrom) = absentIfEmpty(b.meta.distilledFrom)

\* C1: the text serializeMkf gives for a document is also the text it gives for the
\* document parseMkf reads from that text
C1_SerializeParseSerialize == op = "parsed" => serializeMkf(doc) = text

\* C2: the document parseMkf reads from the text serializeMkf gives for a document is
\* that document, field for field
C2_ParseSerializeIdentity == op = "parsed" => sameDocument(doc, prev)

-----------------------------------------------------------------------------
(* The .mkf file: a document is written with its envelope, the file is changed or an
   envelope is made by hand around the same content, and the result is validated *)

s_delimiterInValue == <<"G", "e", "n", "e", "v", "a", "\n", "%", "-", "-", "-", "\n", "a", "f", "t", "e", "r">>
\* a document whose content holds a line equal to the envelope delimiter
XDelimiter == [X1 EXCEPT !.tier1.facts.entries[1].v = s_delimiterInValue]
FileDocs == {emptyMkf, X1, X2, XDelimiter}
\* the reader argument: undefined, a name, the empty string
Curators == {<<>>, <<s_Aiden>>, <<<<>>>>}
\* the characters written over a character of the content
TamperChars == {"X", NL}
\* every TamperStride-th character of the content is one that may be changed
TamperStride == 7
v_2_0 == <<"2", ".", "0">>
v_2_1 == <<"2", ".", "1">>
v_10_0 == <<"1", "0", ".", "0">>
v_0_9 == <<"0", ".", "9">>
v_2 == <<"2">>
v_1_0 == <<"1", ".", "0">>
v_1_5 == <<"1", ".", "5">>
ForgedVersions == {v_2_0, v_2_1, v_10_0, v_0_9, v_2, v_1_0, v_1_5, <<>>}
DigestKinds == {"absent", "match", "mismatch"}

\* the index of the first character of the content of a file serializeMkfFile wrote
contentStart(file) == Len(file) - Len(parseMkfFile(file).content) + 1

InitFile ==
    /\ doc \in FileDocs
    /\ prev = emptyMkf
    /\ chapter = emptyMkf
    /\ fields = emptyMkf
    /\ target = 0
    /\ text = <<>>
    /\ reader = <<>>
    /\ forged = NotForged
    /\ verdict = NoVerdict
    /\ op = "document"
    /\ steps = 0
    /\ textA = <<>>
    /\ textB = <<>>
    /\ overlap = NoOverlap
    /\ emitted = <<>>
    /\ session = NoSession
    /\ call = NoCall

SerializeFile(rdr) ==
    /\ op = "document"
    /\ text' = serializeMkfFile(doc, rdr)
    /\ reader' = rdr
    /\ op' = "file"
    /\ UNCHANGED <<emitted, session, call, textA, textB, overlap, doc, prev, chapter, fields, target, forged, verdict, steps>>

\* one character of the content region is replaced by another
Tamper(i, c) ==
    /\ op = "file"
    /\ verdict = NoVerdict
    /\ i >= contentStart(text) /\ i <= Len(text)
    /\ (i - contentStart(text)) % TamperStride = 0 \/ i = Len(text)
    /\ text[i] # c
    /\ text' = [text EXCEPT ![i] = c]
    /\ op' = "tampered"
    /\ UNCHANGED <<emitted, session, call, textA, textB, overlap, doc, prev, chapter, fields, target, reader, forged, verdict, steps>>

\* an envelope with the version line v and no digest line, the digest of the content, or
\* another digest, around the serialized document
Forge(v, kind) ==
    /\ op = "document"
    /\ LET content == serializeMkf(doc)
           digest  == IF kind = "match" THEN sha256hex(content)
                      ELSE sha256hex(content \o <<"x">>)
           head    == IF kind = "absent" THEN <<L_mkfPrefix \o v>>
                      ELSE <<L_mkfPrefix \o v, L_shaPrefix \o digest>>
       IN  text' = join(head \o <<ENVELOPE_DELIMITER, content>>, <<NL>>)
    /\ forged' = [version |-> v, digest |-> kind]
    /\ op' = "forged"
    /\ UNCHANGED <<emitted, session, call, textA, textB, overlap, doc, prev, chapter, fields, target, reader, verdict, steps>>

Validate ==
    /\ op \in {"file", "tampered", "forged"}
    /\ verdict = NoVerdict
    /\ verdict' = validateMkfFile(text)
    /\ UNCHANGED <<emitted, session, call, textA, textB, overlap, doc, prev, chapter, fields, target, text, reader, forged, op, steps>>

NextFile ==
    \/ \E rdr \in Curators : SerializeFile(rdr)
    \/ \E i \in 1..Len(text), c \in TamperChars : Tamper(i, c)
    \/ \E v \in ForgedVersions, kind \in DigestKinds : Forge(v, kind)
    \/ Validate

SpecFile == InitFile /\ [][NextFile]_vars

Valid == [valid |-> TRUE, error |-> "undefined"]
IntegrityFailure == [valid |-> FALSE, error |-> "SHA-256 integrity check failed"]
UnsupportedVersion == [valid |-> FALSE, error |-> "Unsupported MKF version"]

\* C8: a file serializeMkfFile wrote validates, and the content parseMkfFile extracts
\* from it is the text the digest was computed over
C8_SerializedFileIsValid ==
    (op = "file" /\ verdict # NoVerdict) =>
        /\ verdict = Valid
        /\ parseMkfFile(text).content = serializeMkf(docWithReader(doc, reader))
        /\ parseMkfFile(text).sha256 = <<sha256hex(parseMkfFile(text).content)>>

\* a file written with a reader for a document that names none was validated, and so was
\* one whose content holds a delimiter line
C8_Witness ==
    /\ op = "file" /\ verdict = Valid
    /\ Truthy(reader) /\ ~Truthy(doc.header.reader)
    /\ \E i \in contentStart(text)..(Len(text) - 5) :
          SubSeq(text, i, i + 5) = <<NL>> \o ENVELOPE_DELIMITER \o <<NL>>

\* C9: a file whose content had one character changed fails validation with the
\* integrity error
C9_TamperedContentFails ==
    (op = "tampered" /\ verdict # NoVerdict) => verdict = IntegrityFailure

\* a file was validated after the last character of its content was changed
C9_Witness ==
    /\ op = "tampered" /\ verdict = IntegrityFailure
    /\ text[Len(text)] \in TamperChars
    /\ text # serializeMkfFile(doc, reader)
    /\ SubSeq(text, 1, Len(text) - 1)
         = SubSeq(serializeMkfFile(doc, reader), 1, Len(text) - 1)

\* the major version of a version string: the number before its first "."
majorVersion(v) == parseInt(IF indexOf(v, ".") >= 0 THEN slice(v, 0, indexOf(v, ".")) ELSE v)

\* C10: an envelope whose version line carries a major version other than 1 fails
\* validation with the unsupported-version error, whatever its digest line
C10_VersionBeforeDigest ==
    (op = "forged" /\ verdict # NoVerdict
        /\ ~IsNaN(majorVersion(forged.version)) /\ majorVersion(forged.version) # Num(1, 0))
    => verdict = UnsupportedVersion

\* an envelope of version 2.0 with the right digest was validated
C10_Witness ==
    /\ op = "forged" /\ verdict = UnsupportedVersion
    /\ forged = [version |-> v_2_0, digest |-> "match"]


-----------------------------------------------------------------------------
(* What the final compression leaves alone *)

-----------------------------------------------------------------------------
(* The field merges of mergeMkf, before the budget is enforced *)

\* wordOverlap(a, b) >= tenths / 10
overlapAtLeast(a, b, tenths) == LET r == wordOverlap(a, b) IN 10 * r.num >= tenths * r.den

\* `after` is `before` with the insight `incoming` merged in as C12 describes
IsInsightMerge(before, incoming, after) ==
    LET matches == {i \in 1..Len(before) : overlapAtLeast(before[i].text, incoming.text, 6)}
    IN  IF matches = {} THEN after = Append(before, incoming)
        ELSE LET m == Min(matches)
             IN  /\ Len(after) = Len(before)
                 /\ \A i \in 1..Len(before) : i # m => after[i] = before[i]
                 /\ after[m].significant = (before[m].significant \/ incoming.significant)
                 /\ after[m].text \in {before[m].text, incoming.text}
                 /\ Len(after[m].text) = Max({Len(before[m].text), Len(incoming.text)})

\* every insight of `incoming`, in order, goes into `before` as C12 describes, and the
\* outcome is `result`
RECURSIVE InsightMergesTo(_, _, _)
InsightMergesTo(before, incoming, result) ==
    IF incoming = <<>> THEN before = result
    ELSE LET after == mergeInsights(before, <<incoming[1]>>)
         IN  /\ IsInsightMerge(before, incoming[1], after)
             /\ InsightMergesTo(after, Tail(incoming), result)

\* C12: an incoming insight that overlaps an already-merged insight by 0.6 or more is not
\* appended: the first such insight becomes significant if either was and takes the
\* longer of the two texts; an incoming insight below 0.6 against every merged insight
\* is appended at the end.  Merging a one-insight chapter into a one-insight document
\* whose insight it overlaps by 0.6 or more yields one insight, significant if either
\* was, with the longer text
C12_InsightDedup ==
    op \in {"merge", "remerge"} =>
        /\ InsightMergesTo(prev.tier2.insights, chapter.tier2.insights, fields.tier2.insights)
        /\ (/\ Len(prev.tier2.insights) = 1
            /\ Len(chapter.tier2.insights) = 1
            /\ overlapAtLeast(prev.tier2.insights[1].text, chapter.tier2.insights[1].text, 6))
           => /\ Len(doc.tier2.insights) = 1
              /\ doc.tier2.insights[1].significant
                     = (prev.tier2.insights[1].significant
                          \/ chapter.tier2.insights[1].significant)
              /\ Len(doc.tier2.insights[1].text)
                     = Max({Len(prev.tier2.insights[1].text),
                            Len(chapter.tier2.insights[1].text)})

\* a one-insight chapter was merged into a one-insight document: its insight, significant
\* and longer, replaced the text of the overlapping insight and promoted it
C12_Witness ==
    /\ op = "merge"
    /\ Len(prev.tier2.insights) = 1 /\ Len(chapter.tier2.insights) = 1
    /\ prev.tier2.insights[1].text # chapter.tier2.insights[1].text
    /\ overlapAtLeast(prev.tier2.insights[1].text, chapter.tier2.insights[1].text, 6)
    /\ ~prev.tier2.insights[1].significant
    /\ doc.tier2.insights = <<[significant |-> TRUE, text |-> chapter.tier2.insights[1].text]>>

\* some insight of the chapter overlaps the question by 0.4 or more
answeredByChapter(q) ==
    \E i \in 1..Len(chapter.tier2.insights) :
        overlapAtLeast(q.text, chapter.tier2.insights[i].text, 4)

\* every question of `incoming`, in order, is appended to `surviving` unless it overlaps
\* a question already there by 0.6 or more, and the outcome is `result`
RECURSIVE QuestionsAppendTo(_, _, _)
QuestionsAppendTo(surviving, incoming, result) ==
    IF incoming = <<>> THEN surviving = result
    ELSE QuestionsAppendTo(
            IF \E i \in 1..Len(surviving) :
                  overlapAtLeast(surviving[i].text, incoming[1].text, 6)
            THEN surviving ELSE Append(surviving, incoming[1]),
            Tail(incoming), result)

\* C13: before budget trimming, an existing question is dropped exactly when some
\* incoming insight overlaps it by 0.4 or more, the other existing questions survive in
\* order, and each incoming question is then appended unless it overlaps a question
\* already in the surviving list by 0.6 or more; the insights the document already
\* held drop no question
C13_QuestionPromotion ==
    op \in {"merge", "remerge"} =>
        LET kept == {i \in 1..Len(prev.tier2.questions) :
                       ~answeredByChapter(prev.tier2.questions[i])}
        IN  /\ promoteQuestions(prev.tier2.questions, <<>>, chapter.tier2.insights)
                   = [j \in 1..Cardinality(kept) |-> prev.tier2.questions[nth(kept, j)]]
            /\ QuestionsAppendTo(
                   [j \in 1..Cardinality(kept) |-> prev.tier2.questions[nth(kept, j)]],
                   chapter.tier2.questions, fields.tier2.questions)

\* a merge dropped a question that an insight of the chapter answers, kept another one,
\* and did not append the question of the chapter that repeats the one kept
C13_Witness ==
    /\ op = "merge"
    /\ \E i \in 1..Len(prev.tier2.questions) : answeredByChapter(prev.tier2.questions[i])
    /\ fields.tier2.questions # <<>>
    /\ chapter.tier2.questions # <<>>
    /\ Len(fields.tier2.questions) < Len(prev.tier2.questions)

keysOf(props) == {props[i].k : i \in 1..Len(props)}
valueAt(props, key) == props[CHOOSE i \in 1..Len(props) : props[i].k = key].v

\* the property map `after` is the union of the maps `old` and `new`: on a shared key the
\* strictly longer string, the old one on equal length
IsLongerWinsUnion(after, old, new) ==
    /\ keysOf(after) = keysOf(old) \cup keysOf(new)
    /\ Len(after) = Cardinality(keysOf(after))
    /\ \A key \in keysOf(after) :
          valueAt(after, key)
             = IF key \in keysOf(old) /\ key \in keysOf(new)
               THEN IF Len(valueAt(new, key)) > Len(valueAt(old, key))
                    THEN valueAt(new, key) ELSE valueAt(old, key)
               ELSE IF key \in keysOf(old) THEN valueAt(old, key) ELSE valueAt(new, key)

\* `after` is `before` with the named entry `item` merged in as C14 describes
IsNamedMerge(before, item, after) ==
    LET matches == {i \in 1..Len(before) : normalize(before[i].name) = normalize(item.name)}
    IN  IF matches = {} THEN after = Append(before, item)
        ELSE LET m == Min(matches)
             IN  /\ Len(after) = Len(before)
                 /\ \A i \in 1..Len(before) : i # m => after[i] = before[i]
                 /\ after[m].name = before[m].name
                 /\ IsLongerWinsUnion(after[m].properties, before[m].properties,
                                      item.properties)

\* C14: an incoming theme, concept or framework whose normalized name equals that of an
\* already-merged entry adds no entry: the entry keeps the display name it has and its
\* property map becomes the union of both maps, the strictly longer string winning on a
\* shared key and the existing one staying on equal length; an incoming entry with no
\* match is appended after all existing entries
C14_NamedEntriesMerge ==
    op \in {"merge", "remerge"} =>
        /\ fields.tier1.themes = mergeThemes(prev.tier1.themes, chapter.tier1.themes)
        /\ fields.tier1.concepts = mergeConcepts(prev.tier1.concepts, chapter.tier1.concepts)
        /\ fields.tier2.frameworks
               = mergeFrameworks(prev.tier2.frameworks, chapter.tier2.frameworks)
        /\ \A k \in 1..Len(chapter.tier1.themes) :
              IsNamedMerge(
                  mergeThemes(prev.tier1.themes, SubSeq(chapter.tier1.themes, 1, k - 1)),
                  chapter.tier1.themes[k],
                  mergeThemes(prev.tier1.themes, SubSeq(chapter.tier1.themes, 1, k)))
        /\ \A k \in 1..Len(chapter.tier1.concepts) :
              IsNamedMerge(
                  mergeConcepts(prev.tier1.concepts, SubSeq(chapter.tier1.concepts, 1, k - 1)),
                  chapter.tier1.concepts[k],
                  mergeConcepts(prev.tier1.concepts, SubSeq(chapter.tier1.concepts, 1, k)))
        /\ \A k \in 1..Len(chapter.tier2.frameworks) :
              IsNamedMerge(
                  mergeFrameworks(prev.tier2.frameworks,
                                  SubSeq(chapter.tier2.frameworks, 1, k - 1)),
                  chapter.tier2.frameworks[k],
                  mergeFrameworks(prev.tier2.frameworks,
                                  SubSeq(chapter.tier2.frameworks, 1, k)))


-----------------------------------------------------------------------------
(* The order of the budget enforcement *)

\* C17: the budget enforcement of mergeMkf removes a question only once no
\* insight remains and a connection only once no question remains, both from the end
C17_QuestionsAfterInsightsExhausted ==
    op \in {"merge", "remerge"} =>
        /\ IsPrefix(doc.tier2.questions, fields.tier2.questions)
        /\ IsPrefix(doc.tier2.connections, fields.tier2.connections)
        /\ (doc.tier2.questions # fields.tier2.questions => doc.tier2.insights = <<>>)
        /\ (doc.tier2.connections # fields.tier2.connections => doc.tier2.questions = <<>>)

\* the insights left once k removals took the non-significant insights from the last to
\* the first and then the significant ones from the end
afterRemoving(insights, k) ==
    LET nonSig == {i \in 1..Len(insights) : ~insights[i].significant}
        gone   == {i \in nonSig : Cardinality({j \in nonSig : j > i}) < k}
        kept   == (1..Len(insights)) \ gone
    IN  IF k <= Cardinality(nonSig)
        THEN [j \in 1..Cardinality(kept) |-> insights[nth(kept, j)]]
        ELSE SubSeq(SelectSeq(insights, LAMBDA i : i.significant), 1, Len(insights) - k)

\* C18: the budget loops of mergeMkf and finalizeCompression remove a significant insight
\* only when no non-significant insight is left; while one is left they remove the last
\* non-significant one, and the insights that remain keep their order
C18_LastNonSignificantFirst ==
    op \in {"merge", "remerge", "compress"} =>
        /\ Len(doc.tier2.insights) <= Len(fields.tier2.insights)
        /\ doc.tier2.insights
               = afterRemoving(fields.tier2.insights,
                               Len(fields.tier2.insights) - Len(doc.tier2.insights))

\* a merge removed a non-significant insight that stood before a significant one and
\* kept the significant one
C18_Witness ==
    /\ op = "merge"
    /\ Len(fields.tier2.insights) = 2
    /\ ~fields.tier2.insights[1].significant
    /\ fields.tier2.insights[2].significant
    /\ doc.tier2.insights = <<fields.tier2.insights[2]>>

\* C19: the budget enforcement of mergeMkf changes the insights, questions and connections
\* only: frameworks, header, structural tier and meta stay as the field merge made them,
\* even in a document that stays over 3200 tokens; only finalizeCompression removes
\* frameworks, from the end and only once questions and connections are empty
C19_FrameworksOnlyAtCompression ==
    /\ op \in {"merge", "remerge"} =>
          /\ doc.tier2.frameworks = fields.tier2.frameworks
          /\ doc.header = fields.header
          /\ doc.tier1 = fields.tier1
          /\ doc.meta = fields.meta
    /\ op = "compress" =>
          /\ IsPrefix(doc.tier2.frameworks, fields.tier2.frameworks)
          /\ doc.tier2.frameworks # fields.tier2.frameworks
                 => (doc.tier2.questions = <<>> /\ doc.tier2.connections = <<>>)

\* a merge removed connections, left the document over the ceiling and kept its framework
C19_Witness ==
    /\ op = "merge"
    /\ tokensOf(doc) > MAX_MKF_TOKENS
    /\ doc.tier2.connections # fields.tier2.connections
    /\ doc.tier2.frameworks # <<>>

\* C16: across the merges of a session that starts from emptyMkf(), every header field
\* but the progress field (book, by, id, tokens, words, chapters, reader) takes the first
\* non-empty value a merged chapter supplies and keeps it from then on, while the
\* progress field (read) takes the non-empty value of every chapter that supplies one
C16_HeaderFirstWins ==
    [][op' \in {"merge", "remerge"} =>
          /\ \A f \in {"book", "by", "id", "tokens", "words"} :
                doc'.header[f] = IF doc.header[f] # <<>> THEN doc.header[f]
                                 ELSE chapter'.header[f]
          /\ doc'.header.chapters = IF NumFalsy(doc.header.chapters)
                                    THEN chapter'.header.chapters ELSE doc.header.chapters
          /\ doc'.header.reader = IF Truthy(doc.header.reader) THEN doc.header.reader
                                  ELSE chapter'.header.reader
          /\ doc'.header.read = IF chapter'.header.read # <<>> THEN chapter'.header.read
                                ELSE doc.header.read]_vars

\* a chapter with another title and a later date was merged into a document that had
\* both: the title stayed, the date moved on
C16_Witness ==
    /\ op = "merge"
    /\ prev.header.book # <<>> /\ chapter.header.book # <<>>
    /\ chapter.header.book # prev.header.book
    /\ doc.header.book = prev.header.book
    /\ prev.header.read # <<>> /\ chapter.header.read # <<>>
    /\ chapter.header.read # prev.header.read
    /\ doc.header.read = chapter.header.read

-----------------------------------------------------------------------------
(* The pruning step of the final compression *)

wordSet(t) == seqToSet(extractContentWords(t))

\* the content words of all the text of the structural tier: names and property values
\* of themes and concepts, the four parts of relationships, the values of structure
\* and facts
structuralWords(d) ==
    LET named(items) ==
            UNION {wordSet(items[i].name)
                     \cup UNION {wordSet(items[i].properties[j].v) :
                                   j \in 1..Len(items[i].properties)} : i \in 1..Len(items)}
        values(props) == UNION {wordSet(props[j].v) : j \in 1..Len(props)}
        rels == d.tier1.relationships
    IN  named(d.tier1.themes) \cup named(d.tier1.concepts)
        \cup UNION {wordSet(rels[i].from) \cup wordSet(rels[i].arrow) \cup wordSet(rels[i].to)
                      \cup wordSet(rels[i].annotation) : i \in 1..Len(rels)}
        \cup values(d.tier1.structure.properties)
        \cup values(d.tier1.facts.entries)

\* more than 70% of the content words of the text are among `words`
overSeventyPercent(t, words) ==
    LET ws == extractContentWords(t)
    IN  10 * Cardinality({i \in 1..Len(ws) : ws[i] \in words}) > 7 * Len(ws)

\* C20: the pruning step of finalizeCompression removes a non-significant insight exactly
\* when more than 70% of its content words occur in the text of the structural tier
\* (themes, relationships, structure, concepts, facts); at 70% or below the insight
\* stays, and a significant insight always stays
C20_PruneAboveSeventyPercent ==
    op = "compress" =>
        LET sorted == sortInsights(prev.tier2.insights)
            words  == structuralWords(prev)
            kept   == {i \in 1..Len(sorted) :
                         sorted[i].significant \/ ~overSeventyPercent(sorted[i].text, words)}
        IN  fields.tier2.insights = [j \in 1..Cardinality(kept) |-> sorted[nth(kept, j)]]

-----------------------------------------------------------------------------
(* wordOverlap on its own: two texts are drawn and compared *)

w_The == <<"T", "h", "e">>
w_Go == <<"G", "o">>
w_Ambition == <<"A", "m", "b", "i", "t", "i", "o", "n", "!">>
w_ruin == <<"r", "u", "i", "n">>
w_its == <<"i", "t", "'", "s">>
Vocabulary == {w_The, w_Go, w_Ambition, w_ruin, w_its}
\* the number of words of a text
MaxWords == 2
Texts ==
    UNION {{join(ws, <<" ">>) : ws \in [1..n -> Vocabulary]} : n \in 0..MaxWords}

InitWords ==
    /\ doc = emptyMkf
    /\ prev = emptyMkf
    /\ chapter = emptyMkf
    /\ fields = emptyMkf
    /\ target = 0
    /\ text = <<>>
    /\ reader = <<>>
    /\ forged = NotForged
    /\ verdict = NoVerdict
    /\ op = "init"
    /\ steps = 0
    /\ textA = <<>>
    /\ textB = <<>>
    /\ overlap = NoOverlap
    /\ emitted = <<>>
    /\ session = NoSession
    /\ call = NoCall

Overlap(x, y) ==
    /\ op = "init"
    /\ textA' = x
    /\ textB' = y
    /\ overlap' = wordOverlap(x, y)
    /\ op' = "overlap"
    /\ UNCHANGED <<emitted, session, call, doc, prev, chapter, fields, target, text, reader, forged, verdict, steps>>

NextWords == \E x \in Texts, y \in Texts : Overlap(x, y)

SpecWords == InitWords /\ [][NextWords]_vars

\* the whitespace-separated words of a text, lower-cased
wordsOf(t) == splitRuns(toLowerCase(t), IsWs)

\* C15 as claimed: wordOverlap(a, a) is 1 for every text a with at least one word outside
\* the stop-word set
C15_SelfOverlapIsOne ==
    (op = "overlap" /\ textA = textB
       /\ \E i \in 1..Len(wordsOf(textA)) : wordsOf(textA)[i] \notin stopWords)
        => (overlap.num = overlap.den /\ overlap.num > 0)

\* a word counts when, lower-cased and stripped of every character other than a-z, 0-9
\* and the underscore, it is longer than two characters and is no stop word
IsContentWord(w) ==
    LET bare == SelectSeq(w, LAMBDA c : IsLower(c) \/ IsDigit(c) \/ c = "_")
    IN  Len(bare) > 2 /\ bare \notin stopWords

\* C15, amended: wordOverlap(a, a) is 1 for every text a with at least one word that
\* counts, and 0 for every other text
C15_SelfOverlapIsOneOnContent ==
    (op = "overlap" /\ textA = textB) =>
        IF \E i \in 1..Len(wordsOf(textA)) : IsContentWord(wordsOf(textA)[i])
        THEN overlap.num = overlap.den /\ overlap.num > 0
        ELSE overlap.num = 0

\* a text of two content words was compared with itself
C15_Witness ==
    /\ op = "overlap"
    /\ textA = textB
    /\ overlap = [num |-> 2, den |-> 2]

(***************************************************************************)
(* The order of the insights after compression *)

\* every significant insight stands before every non-significant one, and within each
\* class the texts never get longer
significantFirstLongestFirst(ins) ==
    \A i, j \in 1..Len(ins) :
        i < j => /\ ins[j].significant => ins[i].significant
                 /\ (ins[i].significant = ins[j].significant)
                        => Len(ins[i].text) >= Len(ins[j].text)

occurrences(arr, x) == Cardinality({i \in 1..Len(arr) : arr[i] = x})

IsPermutation(a, b) ==
    /\ Len(a) = Len(b)
    /\ \A i \in 1..Len(a) : occurrences(a, a[i]) = occurrences(b, a[i])

\* C21: in the document a compression returns every significant insight precedes every
\* non-significant one and within each class the texts are in non-increasing order of
\* length; the reordering step yields a permutation of the insights it was given
C21_SignificantFirstLongestFirst ==
    op = "compress" =>
        /\ significantFirstLongestFirst(doc.tier2.insights)
        /\ significantFirstLongestFirst(sortInsights(prev.tier2.insights))
        /\ IsPermutation(sortInsights(prev.tier2.insights), prev.tier2.insights)

\* a compression moved insights and returned both classes, with non-significant texts
\* of different lengths
C21_Witness ==
    /\ op = "compress"
    /\ sortInsights(prev.tier2.insights) # prev.tier2.insights
    /\ \E i, j \in 1..Len(doc.tier2.insights) :
          /\ i < j
          /\ ~doc.tier2.insights[i].significant /\ ~doc.tier2.insights[j].significant
          /\ Len(doc.tier2.insights[i].text) > Len(doc.tier2.insights[j].text)
    /\ \E i \in 1..Len(doc.tier2.insights) : doc.tier2.insights[i].significant

(***************************************************************************)
(* The budget loops end *)

\* the items the budget loops may remove
itemsOf(d, withFrameworks) ==
    Len(d.tier2.insights) + Len(d.tier2.questions) + Len(d.tier2.connections)
    + (IF withFrameworks THEN Len(d.tier2.frameworks) ELSE 0)

\* the document after k iterations that remove one item each: insights while more than
\* one is left, then questions, then connections, then (compression only) frameworks
afterIterations(d, k, withFrameworks) ==
    LET ki == Min({k, Max({Len(d.tier2.insights) - 1, 0})})
        kq == Min({k - ki, Len(d.tier2.questions)})
        kc == Min({k - ki - kq, Len(d.tier2.connections)})
        kf == IF withFrameworks THEN Min({k - ki - kq - kc, Len(d.tier2.frameworks)}) ELSE 0
    IN  [d EXCEPT !.tier2.insights = afterRemoving(@, ki),
                  !.tier2.questions = SubSeq(@, 1, Len(@) - kq),
                  !.tier2.connections = SubSeq(@, 1, Len(@) - kc),
                  !.tier2.frameworks = SubSeq(@, 1, Len(@) - kf)]

\* no loop can run on d: the budget is met, or nothing is left that a loop removes
loopsAtRest(d, budget, withFrameworks) ==
    \/ tokensOf(d) <= budget
    \/ /\ Len(d.tier2.insights) <= 1
       /\ d.tier2.questions = <<>>
       /\ d.tier2.connections = <<>>
       /\ withFrameworks => d.tier2.frameworks = <<>>

\* C24: the budget loops of a merge and of a compression end, and every iteration removes
\* exactly one item: the document returned is the one they were given after as many
\* one-item removals as items are missing, at most as many as there were items; it was
\* over the budget before the last removal, and no loop can run on it, whether or not it
\* is within the budget
C24_BudgetLoopsEnd ==
    op \in {"merge", "remerge", "compress"} =>
        LET withFrameworks == op = "compress"
            budget == IF withFrameworks THEN target ELSE MAX_MKF_TOKENS
            k == itemsOf(fields, withFrameworks) - itemsOf(doc, withFrameworks)
        IN  /\ k \in 0..itemsOf(fields, withFrameworks)
            /\ doc = afterIterations(fields, k, withFrameworks)
            /\ k > 0 => tokensOf(afterIterations(fields, k - 1, withFrameworks)) > budget
            /\ loopsAtRest(doc, budget, withFrameworks)

\* a compression ended over its target after it removed a framework and two more items
C24_Witness ==
    /\ op = "compress"
    /\ tokensOf(doc) > target
    /\ Len(fields.tier2.frameworks) > Len(doc.tier2.frameworks)
    /\ itemsOf(fields, TRUE) - itemsOf(doc, TRUE) >= 3

(***************************************************************************)
(* Exact keys stay unique *)

noTwoShare(keys) == \A i, j \in 1..Len(keys) : keys[i] = keys[j] => i = j

nameKeys(items) == [i \in 1..Len(items) |-> normalize(items[i].name)]
targetKeys(connections) == [i \in 1..Len(connections) |-> normalize(connections[i].target)]
tripleKeys(rels) ==
    [i \in 1..Len(rels) |-> <<normalize(rels[i].from), normalize(rels[i].arrow),
                              normalize(rels[i].to)>>]

\* C26: in every document that merges build from the empty document, no two themes, no
\* two concepts and no two frameworks share a normalized name, no two connections share
\* a normalized target and no two relationships share a normalized (from, arrow, to)
\* triple, also when a chapter repeats a name
C26_ExactKeysUnique ==
    op \in {"init", "merge", "remerge"} =>
        /\ noTwoShare(nameKeys(doc.tier1.themes))
        /\ noTwoShare(nameKeys(doc.tier1.concepts))
        /\ noTwoShare(nameKeys(doc.tier2.frameworks))
        /\ noTwoShare(targetKeys(doc.tier2.connections))
        /\ noTwoShare(tripleKeys(doc.tier1.relationships))

\* a chapter that states one relationship twice and names one connection twice was
\* merged into a document that held both already, under another spelling
C26_Witness ==
    /\ op = "merge"
    /\ ~noTwoShare(tripleKeys(chapter.tier1.relationships))
    /\ ~noTwoShare(targetKeys(chapter.tier2.connections))
    /\ \E i \in 1..Len(prev.tier2.connections) :
          /\ normalize(prev.tier2.connections[i].target) = targetKeys(chapter.tier2.connections)[1]
          /\ prev.tier2.connections[i].target # chapter.tier2.connections[1].target
    /\ Len(prev.tier1.relationships) > 0
    /\ Len(doc.tier2.connections) > 0

(***************************************************************************)
(* Similar insights after merges *)

\* the word sets wordOverlap compares, one for each insight
wordSets(insights) ==
    <<>> \o [i \in 1..Len(insights) |-> seqToSet(extractWords(insights[i].text))]

\* wordOverlap >= 0.6 for two texts with the word sets A and B
overlapSixTenths(A, B) ==
    A # {} /\ B # {} /\ 10 * Cardinality(A \cap B) >= 6 * Cardinality(A \cup B)

noTwoSimilar(insights) ==
    LET W == wordSets(insights)
    IN  \A i, j \in 1..Len(W) : i < j => ~overlapSixTenths(W[i], W[j])

\* C27 as claimed: in every document that merges build from the empty document, no two
\* retained insights have a wordOverlap of 0.6 or more with each other
C27_NoTwoSimilarInsights ==
    op \in {"init", "merge", "remerge"} => noTwoSimilar(doc.tier2.insights)

\* no step of the insight merge replaces a text: every incoming insight either meets no
\* insight merged so far that it overlaps by 0.6 or more, or is no longer than the first
\* such insight (lens and words: the text lengths and word sets of the insights merged
\* so far; inLens and inWords: those of the incoming insights)
RECURSIVE replacesNoTextIn(_, _, _, _)
replacesNoTextIn(lens, words, inLens, inWords) ==
    IF inLens = <<>> THEN TRUE
    ELSE LET matches == {i \in 1..Len(words) : overlapSixTenths(words[i], inWords[1])}
         IN  IF matches = {}
             THEN replacesNoTextIn(Append(lens, inLens[1]), Append(words, inWords[1]),
                                   Tail(inLens), Tail(inWords))
             ELSE /\ inLens[1] <= lens[Min(matches)]
                  /\ replacesNoTextIn(lens, words, Tail(inLens), Tail(inWords))

replacesNoText(merged, incoming) ==
    replacesNoTextIn(<<>> \o [i \in 1..Len(merged) |-> Len(merged[i].text)], wordSets(merged),
                     <<>> \o [i \in 1..Len(incoming) |-> Len(incoming[i].text)],
                     wordSets(incoming))

\* C27, amended: a merge that replaces the text of no insight keeps the property: if no
\* two insights of the existing document have a wordOverlap of 0.6 or more, no two
\* insights of the result have
C27_NoTwoSimilarUnlessReplaced ==
    (/\ op \in {"merge", "remerge"}
     /\ noTwoSimilar(prev.tier2.insights)
     /\ replacesNoText(prev.tier2.insights, chapter.tier2.insights))
        => noTwoSimilar(doc.tier2.insights)

\* a merge replaced no text, met a similar insight and appended two others
C27_Witness ==
    /\ op = "merge"
    /\ Len(prev.tier2.insights) > 0
    /\ noTwoSimilar(prev.tier2.insights)
    /\ replacesNoText(prev.tier2.insights, chapter.tier2.insights)
    /\ \E i \in 1..Len(chapter.tier2.insights) :
          overlapAtLeast(prev.tier2.insights[1].text, chapter.tier2.insights[i].text, 6)
    /\ Len(doc.tier2.insights) >= Len(prev.tier2.insights) + 2

(***************************************************************************)
(* Compressing a compressed document *)

\* C28: finalizeCompression is idempotent: compressing the result of a compression again,
\* to the same target, returns it unchanged, also when the target cannot be met
C28_CompressionIdempotent ==
    op = "compress" => finalizeCompression(doc, target) = doc

\* a compression removed items, kept an insight and ended over its target
C28_Witness ==
    /\ op = "compress"
    /\ itemsOf(prev, TRUE) > itemsOf(doc, TRUE)
    /\ Len(doc.tier2.insights) > 0
    /\ tokensOf(doc) > target

(***************************************************************************)
(* The structural tier under merges *)

\* every key of the map `old` is a key of the map `new`, with a value that is not shorter
keepsKeys(old, new) ==
    \A i \in 1..Len(old) :
        \E j \in 1..Len(new) : new[j].k = old[i].k /\ Len(new[j].v) >= Len(old[i].v)

\* every key of the map `old` stands at the same position in the map `new`, with a value
\* that is not shorter
keepsKeysInPlace(old, new) ==
    /\ Len(new) >= Len(old)
    /\ \A i \in 1..Len(old) : new[i].k = old[i].k /\ Len(new[i].v) >= Len(old[i].v)

keepsNamedInPlace(old, new) ==
    /\ Len(new) >= Len(old)
    /\ \A i \in 1..Len(old) :
          /\ normalize(new[i].name) = normalize(old[i].name)
          /\ keepsKeys(old[i].properties, new[i].properties)

\* C29: the structural tier only grows under merge, whatever the budget: every theme,
\* concept and relationship of the existing document (by normalized key) and every
\* structure and facts key stands at the same position in the result, no property key
\* is lost, and no property value or annotation is replaced by a shorter string
C29_StructuralTierOnlyGrows ==
    op \in {"merge", "remerge"} =>
        /\ keepsNamedInPlace(prev.tier1.themes, doc.tier1.themes)
        /\ keepsNamedInPlace(prev.tier1.concepts, doc.tier1.concepts)
        /\ Len(doc.tier1.relationships) >= Len(prev.tier1.relationships)
        /\ \A i \in 1..Len(prev.tier1.relationships) :
              /\ tripleKeys(doc.tier1.relationships)[i] = tripleKeys(prev.tier1.relationships)[i]
              /\ Len(doc.tier1.relationships[i].annotation)
                    >= Len(prev.tier1.relationships[i].annotation)
        /\ keepsKeysInPlace(prev.tier1.structure.properties, doc.tier1.structure.properties)
        /\ keepsKeysInPlace(prev.tier1.facts.entries, doc.tier1.facts.entries)

(***************************************************************************)
(* Reading a text: the text is parsed, the document merged into a running
   document, and the result serialized *)

p_marked == <<" ", " ", "!", " ", "V", "i", "c", "t", "o", "r", " ", "a", "b", "a", "n", "d", "o", "n", "s", " ", "C", "r", "e", "a", "t", "u", "r", "e">>
p_plain == <<" ", " ", "s", "o", "l", "i", "t", "u", "d", "e", " ", "b", "r", "e", "e", "d", "s", " ", "r", "e", "s", "e", "n", "t", "m", "e", "n", "t">>
p_deeper == <<" ", " ", " ", " ", "a", "c", "r", "o", "s", "s", " ", "f", "r", "o", "z", "e", "n", " ", "w", "a", "s", "t", "e", "s">>
p_flush == <<"k", "n", "o", "w", "l", "e", "d", "g", "e", " ", "w", "i", "t", "h", "o", "u", "t", " ", "w", "i", "s", "d", "o", "m">>
k_1818 == <<"1", "8", "1", "8">>
k_7 == <<"7">>
c_ninth == <<"0", ".", "9">>
c_one == <<"1">>
c_high == <<"h", "i", "g", "h">>

\* the lines of an @insights block: with the significance prefix, unmarked at the
\* indentation the serializer writes, unmarked and indented deeper, unmarked and flush left
InsightLines == {p_marked, p_plain, p_deeper, p_flush}
MaxLines == 2

\* the keys of a @facts block, two of them canonical array indices
FactKeys == {s_setting, s_cause, k_1818, k_7}
MaxKeys == 2

\* the confidence field of the meta section: absent, two numerals, a word, nothing
ConfidenceFields == {<<>>, <<c_ninth>>, <<c_one>>, <<c_high>>, << <<>> >>}

SeqsUpTo(S, n) == UNION {[1..k -> S] : k \in 1..n}
InsightBodies == SeqsUpTo(InsightLines, MaxLines)
KeyLists == {kl \in SeqsUpTo(FactKeys, MaxKeys) : \A i, j \in 1..Len(kl) : kl[i] = kl[j] => i = j}

blockText(head, lines) == join(<<head>> \o lines, <<NL>>)
textOf(keys, body, confidence) ==
    join(<<serializeHeader(X1.header),
           blockText(L_facts, [i \in 1..Len(keys) |-> L_indent \o keys[i] \o L_colonSp \o s_glory]),
           blockText(L_insights, body),
           blockText(L_meta, <<L_session \o s_frank>>
                             \o (IF confidence = <<>> THEN <<>>
                                 ELSE <<L_confidence \o confidence[1]>>))>>,
         L_sectionSep)

BaseKeys == <<s_setting>>
BaseBody == <<p_marked>>
BaseConfidence == <<c_ninth>>
ParseTexts ==
    {textOf(kl, BaseBody, BaseConfidence) : kl \in KeyLists}
    \cup {textOf(BaseKeys, b, BaseConfidence) : b \in InsightBodies}
    \cup {textOf(BaseKeys, BaseBody, c) : c \in ConfidenceFields}

\* the running documents a parsed document is merged into
RunningDocs == {emptyMkf, parseMkf(textOf(BaseKeys, BaseBody, BaseConfidence))}

InitParse ==
    /\ text \in ParseTexts
    /\ doc = emptyMkf
    /\ prev = emptyMkf
    /\ chapter = emptyMkf
    /\ fields = emptyMkf
    /\ target = 0
    /\ reader = <<>>
    /\ forged = NotForged
    /\ verdict = NoVerdict
    /\ op = "text"
    /\ steps = 0
    /\ textA = <<>>
    /\ textB = <<>>
    /\ overlap = NoOverlap
    /\ emitted = <<>>
    /\ session = NoSession
    /\ call = NoCall

ParseText ==
    /\ op = "text"
    /\ doc' = parseMkf(text)
    /\ op' = "parsed"
    /\ UNCHANGED <<prev, chapter, fields, target, text, reader, forged, verdict, steps,
                   textA, textB, overlap, emitted, session, call>>

MergeParsed(existing) ==
    /\ op = "parsed"
    /\ prev' = existing
    /\ chapter' = doc
    /\ fields' = mergeFields(existing, doc)
    /\ doc' = enforceTokenBudget(fields')
    /\ op' = "merged"
    /\ UNCHANGED <<target, text, reader, forged, verdict, steps, textA, textB, overlap,
                   emitted, session, call>>

SerializeMerged ==
    /\ op = "merged"
    /\ emitted' = serializeMkf(doc)
    /\ op' = "emitted"
    /\ UNCHANGED <<doc, prev, chapter, fields, target, text, reader, forged, verdict, steps,
                   textA, textB, overlap, session, call>>

NextParse ==
    \/ ParseText
    \/ \E existing \in RunningDocs : MergeParsed(existing)
    \/ SerializeMerged

SpecParse == InitParse /\ [][NextParse]_vars

\* the lines a text holds under a block header, up to the next blank line, block header
\* or section delimiter
blockLines(t, head) ==
    LET ls == split(t, NL)
        at == {i \in 1..Len(ls) : ls[i] = head}
    IN  IF at = {} THEN <<>>
        ELSE LET stop == {j \in (Min(at) + 1)..Len(ls) :
                            \/ trim(ls[j]) = <<>>
                            \/ ls[j][1] = "@"
                            \/ ls[j] = <<"-", "-", "-">>}
             IN  SubSeq(ls, Min(at) + 1, IF stop = {} THEN Len(ls) ELSE Min(stop) - 1)

\* the value a text gives a field of a block, <<>> when the block has no such field
writtenField(t, head, key) ==
    LET ls == SelectSeq(blockLines(t, head),
                        LAMBDA l : trim(slice(l, 0, indexOf(l, ":"))) = key)
    IN  IF ls = <<>> THEN <<>> ELSE <<trim(sliceFrom(ls[Len(ls)], indexOf(ls[Len(ls)], ":") + 1))>>

\* an unsigned decimal numeral
IsNumeral(s) ==
    /\ s # <<>>
    /\ \A i \in 1..Len(s) : IsDigit(s[i]) \/ s[i] = "."
    /\ Cardinality({i \in 1..Len(s) : s[i] = "."}) <= 1
    /\ \E i \in 1..Len(s) : IsDigit(s[i])

\* C22: parseMkf sets meta.confidence to the numeric value of the confidence field, and
\* to 0 when the field is absent or is no number; the parsed confidence is never NaN
C22_ConfidenceIsANumber ==
    op = "parsed" =>
        LET written == writtenField(text, L_meta, K_confidence)
        IN  /\ ~IsNaN(doc.meta.confidence)
            /\ doc.meta.confidence = IF written # <<>> /\ IsNumeral(written[1])
                                     THEN parseFloat(written[1])
                                     ELSE Num(0, 0)

\* the number of whitespace characters a line starts with
indentOf(l) == IF \A i \in 1..Len(l) : IsWs(l[i]) THEN Len(l)
               ELSE Min({i \in 1..Len(l) : ~IsWs(l[i])}) - 1

\* the insights of a block as described: a line with the significance prefix starts a
\* significant insight, an unmarked line that is indented no deeper than the first line
\* of the block starts a non-significant one, and an unmarked line indented deeper is
\* joined by a space onto the insight before it
RECURSIVE insightsAsDescribed(_, _, _)
insightsAsDescribed(lines, itemIndent, acc) ==
    IF lines = <<>> THEN acc
    ELSE LET t == trim(lines[1])
         IN  insightsAsDescribed(Tail(lines), itemIndent,
                IF startsWith(t, <<"!">>)
                THEN Append(acc, [significant |-> TRUE, text |-> trim(Tail(t))])
                ELSE IF indentOf(lines[1]) <= itemIndent \/ acc = <<>>
                THEN Append(acc, [significant |-> FALSE, text |-> t])
                ELSE [acc EXCEPT ![Len(acc)].text = @ \o <<" ">> \o t])

\* C23: in an insights block a line with the significance prefix starts a new significant
\* insight, an unmarked non-indented line starts a new non-significant insight, and an
\* indented unmarked line is space-joined onto the current insight
C23_IndentedLineContinues ==
    op = "parsed" =>
        LET lines == blockLines(text, L_insights)
        IN  doc.tier2.insights = insightsAsDescribed(lines, indentOf(lines[1]), <<>>)

\* the keys of the lines a text holds under a block header, in the order of the lines
writtenKeys(t, head) ==
    LET ls == blockLines(t, head)
    IN  [i \in 1..Len(ls) |-> trim(slice(ls[i], 0, indexOf(ls[i], ":")))]

keySeq(props) == [i \in 1..Len(props) |-> props[i].k]

\* C25: property maps keep insertion order from parseMkf through mergeMkf to
\* serializeMkf, whatever the keys are: the parsed facts hold the keys in the order of
\* the text, and the emitted facts block holds the keys of the running document first
\* and then the new keys in the order of the text
C25_KeysKeepInsertionOrder ==
    /\ op = "parsed" => keySeq(doc.tier1.facts.entries) = writtenKeys(text, L_facts)
    /\ op = "emitted" =>
          LET existing == keySeq(prev.tier1.facts.entries)
          IN  writtenKeys(emitted, L_facts)
                = existing \o SelectSeq(writtenKeys(text, L_facts),
                                        LAMBDA k : \A i \in 1..Len(existing) : existing[i] # k)

(***************************************************************************)
(* The reading position: a session is created for a book and advanced *)

MaxChapters == 2
MaxAdvances == 4

\* the books: EPUB and text parsing may find no chapter at all
Books == {[chapters |-> n] : n \in 0..MaxChapters}

AdvanceOptions(state) ==
    [nextChapter : BOOLEAN, nextChunk : BOOLEAN,
     runningSummary : {<<>>, <<s_note>>},
     reflection : {<<>>, <<[chapterIndex |-> state.currentChapter]>>}]

InitSession ==
    /\ session \in {createSession(book) : book \in Books}
    /\ call = NoCall
    /\ doc = emptyMkf
    /\ prev = emptyMkf
    /\ chapter = emptyMkf
    /\ fields = emptyMkf
    /\ target = 0
    /\ text = <<>>
    /\ reader = <<>>
    /\ forged = NotForged
    /\ verdict = NoVerdict
    /\ op = "session"
    /\ steps = 0
    /\ textA = <<>>
    /\ textB = <<>>
    /\ overlap = NoOverlap
    /\ emitted = <<>>

Advance(opts) ==
    /\ op \in {"session", "advance"}
    /\ steps < MaxAdvances
    /\ session' = advancePosition(session, opts)
    /\ call' = [opts |-> opts, before |-> session,
                after |-> argumentAfterAdvance(session, opts)]
    /\ op' = "advance"
    /\ steps' = steps + 1
    /\ UNCHANGED <<doc, prev, chapter, fields, target, text, reader, forged, verdict,
                   textA, textB, overlap, emitted>>

NextSession == \E opts \in AdvanceOptions(session) : Advance(opts)

SpecSession == InitSession /\ [][NextSession]_vars

\* advancePosition kept completed, reset the chunk on a chapter advance, and left its
\* argument as it was
advanceKeepsItsPromises ==
    op = "advance" =>
        /\ call.before.completed => session.completed
        /\ call.opts.nextChapter =>
              /\ session.currentChapter = call.before.currentChapter + 1
              /\ session.currentChunk = 0
        /\ call.after = call.before

\* C30: in every reading state reached from createSession by advancePosition calls,
\* completed is true exactly when currentChapter >= totalChapters; completed never
\* reverts to false, every chapter advance resets currentChunk to 0, and advancePosition
\* does not modify the state it is given
C30_CompletedIffAllChaptersRead ==
    op \in {"session", "advance"} =>
        /\ session.completed <=> session.currentChapter >= session.totalChapters
        /\ advanceKeepsItsPromises

=============================================================================
